---------------------------- MODULE Spec2Model ----------------------------
(***************************************************************************)
(* A model of the report-validation and lifecycle core of jalanrusak-be:   *)
(* the DamagedRoad entity and its status machine, the report service       *)
(* (CreateReport, UpdateReportStatus), the geometry service and the photo  *)
(* URL validator with its SSRF checks.                                     *)
(*                                                                         *)
(* Strings that the code inspects byte by byte (titles, region codes,      *)
(* content types) are sequences of one-character strings; text that is     *)
(* only concatenated (error messages) is a sequence of its parts.          *)
(* time.Time values are ticks of the counter `now`.                        *)
(***************************************************************************)
EXTENDS Integers, Sequences, FiniteSets, TLC

(***************************************************************************)
(* Bounds of the model.                                                    *)
(***************************************************************************)
\* how far the wall clock advances
MaxClock == 3

VARIABLES
    now,        \* the wall clock read by time.Now() and by SQL NOW()
    road,       \* the in-memory DamagedRoad entity under test
    ret,        \* what the last DamagedRoad.UpdateStatus call got and returned
    ct,         \* the last Status.CanTransitionTo call: receiver, argument, result
    db,         \* the damaged_roads table: the set of its rows
    calls,      \* each caller's UpdateReportStatus call: where it is, what it holds
    pv,         \* the photo validator's call: the URL, the network, the result
    vb,         \* the photo validator's batch call: the URLs, the network, the results
    cr,         \* the CreateReport call: its arguments, where it is, what it did
    gc,         \* the geometry call: its arguments and what it returned
    dels,       \* each requester's DeleteReport call: where it is, what it holds
    hp,         \* the request to PATCH /damaged-roads/:id/status: its parts, the gin context, the answer
    au,         \* the refresh_tokens table, each client's RefreshToken call, the tokens logouts revoked
    pw,         \* password_reset_tokens, the users' password hashes, each client's ResetPassword call
    rb          \* the photo validator's call under a name server whose answers change

entityVars == <<road, ret, ct>>
statusVars == <<db, calls>>
photoVars == <<pv, vb>>
createVars == <<cr>>
geoVars == <<gc>>

vars == <<now, entityVars, statusVars, photoVars, createVars, geoVars, dels, hp, au, pw, rb>>

(***************************************************************************)
(* core/domain/errors                                                      *)
(***************************************************************************)
ErrRequired == "required field is missing"
ErrInvalidTitle == "title must be between 3 and 100 characters"
ErrInvalidSubDistrictCode == "invalid subdistrict code format (expected: NN.NN.NN.NNNN)"
ErrCoordinatesOutOfBounds == "coordinates outside Indonesian boundaries (lat: -11 to 6, lng: 95 to 141)"
ErrInvalidPath == "path must have at least 1 coordinate point"
ErrTooManyPathPoints == "path cannot have more than 100 coordinate points"
ErrInvalidPhotoURLs == "at least 1 and at most 10 photo URLs required"
ErrSubDistrictNotFound == "subdistrict code not found"
ErrInvalidDescription == "description cannot exceed 500 characters"
ErrInvalidStatus == "invalid status"
ErrInvalidStatusTransition == "invalid status transition"
ErrInvalidGeometry == "invalid geometry"
ErrReportNotFound == "damaged road report not found"
ErrRecordNotFound == "record not found"
ErrInvalidToken == "invalid token"
ErrTokenExpired == "token has expired"
ErrWeakPassword == "password must be at least 8 characters and contain uppercase, lowercase, and digit"
ErrUserNotFound == "user not found"
ErrLocationNotInBoundary == "location is not within expected administrative boundary"
ErrUnauthorizedAccess == "unauthorized access to resource"

\* An error value: the types along its Unwrap chain (outermost first), the Field
\* and Message of a *ValidationError (for the other types, msg is the text of
\* Error()), and the sentinel at the end of the chain.
NoError == [chain |-> <<>>, field |-> "", msg |-> <<>>, err |-> ""]

\* *ValidationError{Field, Message, Err}
NewValidationError(field, message, err) ==
    [chain |-> <<"ValidationError", "errorString">>, field |-> field,
     msg |-> message, err |-> err]

\* ValidationError.Error(), and Error() of the other types
ErrorText(e) ==
    IF e.chain # <<>> /\ e.chain[1] = "ValidationError"
    THEN IF e.field # ""
         THEN <<"validation error on field '", e.field, "': ">> \o e.msg
         ELSE <<"validation error: ">> \o e.msg
    ELSE e.msg

\* *DatabaseError{Operation, Err}; Err is the driver's error
NewDatabaseError(operation) ==
    [chain |-> <<"DatabaseError", "driver">>, field |-> "",
     msg |-> <<"database error during ", operation, ": ", "driver error">>,
     err |-> "driver error"]

\* a sentinel (errors.New) returned as it is
Sentinel(err) == [chain |-> <<"errorString">>, field |-> "", msg |-> <<err>>, err |-> err]

\* fmt.Errorf("<prefix>%w", e): a *fmt.wrapError around e
WrapError(prefix, e) ==
    [chain |-> <<"wrapError">> \o e.chain, field |-> e.field,
     msg |-> prefix \o ErrorText(e), err |-> e.err]

\* fmt.Errorf("%w: %v", sentinel, text): a *fmt.wrapError around a sentinel
WrapSentinel(sentinel, text) ==
    [chain |-> <<"wrapError", "errorString">>, field |-> "",
     msg |-> <<sentinel, ": ">> \o text, err |-> sentinel]

\* errors.As(err, &validationErr): a *ValidationError somewhere along the chain
AsValidationError(e) == \E i \in 1..Len(e.chain) : e.chain[i] = "ValidationError"

(***************************************************************************)
(* Status and its transition table.                                        *)
(***************************************************************************)
StatusSubmitted == "submitted"
StatusUnderVerification == "under_verification"
StatusVerified == "verified"
StatusPendingResolved == "pending_resolved"
StatusResolved == "resolved"
StatusArchived == "archived"

AllStatuses ==
    << StatusSubmitted, StatusUnderVerification, StatusVerified,
       StatusPendingResolved, StatusResolved, StatusArchived >>

\* Status is a string type: any string can stand where a Status is expected.
StatusInputs ==
    { AllStatuses[i] : i \in 1..Len(AllStatuses) } \cup {"", "Submitted", "rejected", "ARCHIVED"}

IsValid(s) == \E i \in 1..Len(AllStatuses) : s = AllStatuses[i]

allowedTransitions ==
    (StatusSubmitted :> <<StatusUnderVerification>>) @@
    (StatusUnderVerification :> <<StatusVerified>>) @@
    (StatusVerified :> <<StatusPendingResolved>>) @@
    (StatusPendingResolved :> <<StatusResolved>>) @@
    (StatusResolved :> <<StatusArchived>>) @@
    (StatusArchived :> <<>>)

CanTransitionTo_SkipAhead(s, newStatus) ==
    \E i, j \in 1..Len(AllStatuses) :
        s = AllStatuses[i] /\ newStatus = AllStatuses[j] /\ j > i

CanTransitionTo(s, newStatus) ==
    IF s \notin DOMAIN allowedTransitions
    THEN FALSE
    ELSE LET allowedTargets == allowedTransitions[s]
         IN  \E i \in 1..Len(allowedTargets) : newStatus = allowedTargets[i]

(***************************************************************************)
(* Value objects: Point, Geometry, SubDistrictCode, Title, Description.    *)
(* Coordinates are float64 degrees, kept here in units of 1/10000 degree.  *)
(***************************************************************************)
Deg(d) == d * 10000

Point(lat, lng) == [Lat |-> lat, Lng |-> lng]

PointValidate(p) ==
    IF p.Lat < Deg(-11) \/ p.Lat > Deg(6)
    THEN NewValidationError("lat",
            <<"latitude must be between -11 and 6 (Indonesian boundaries)">>,
            ErrCoordinatesOutOfBounds)
    ELSE IF p.Lng < Deg(95) \/ p.Lng > Deg(141)
    THEN NewValidationError("lng",
            <<"longitude must be between 95 and 141 (Indonesian boundaries)">>,
            ErrCoordinatesOutOfBounds)
    ELSE NoError

\* the smallest index at which bad holds, 0 when there is none: where a
\* `for i, x := range xs { if bad(x) { return ... } }` loop returns
FirstIndex(bad) ==
    IF \E i \in 1..Len(bad) : bad[i]
    THEN CHOOSE i \in 1..Len(bad) : bad[i] /\ \A j \in 1..(i - 1) : ~bad[j]
    ELSE 0

NoGeometry == [Type |-> "", Coordinates |-> <<>>]

CoordinateError(coord, i) ==
    IF Len(coord) # 2
    THEN NewValidationError("coordinates",
            <<"coordinate at index ", ToString(i - 1), " must have exactly 2 values">>,
            ErrInvalidGeometry)
    ELSE LET lng == coord[1]
             lat == coord[2]
         IN  IF lat < Deg(-11) \/ lat > Deg(6)
             THEN NewValidationError("coordinates",
                    <<"latitude at index ", ToString(i - 1), " must be between -11 and 6">>,
                    ErrCoordinatesOutOfBounds)
             ELSE IF lng < Deg(95) \/ lng > Deg(141)
             THEN NewValidationError("coordinates",
                    <<"longitude at index ", ToString(i - 1), " must be between 95 and 141">>,
                    ErrCoordinatesOutOfBounds)
             ELSE NoError

GeometryValidate(g) ==
    IF g.Type # "LineString"
    THEN NewValidationError("type", <<"geometry type must be LineString">>,
            ErrInvalidGeometry)
    ELSE IF Len(g.Coordinates) < 1
    THEN NewValidationError("coordinates", <<"at least 1 coordinate pair required">>,
            ErrInvalidPath)
    ELSE IF Len(g.Coordinates) > 100
    THEN NewValidationError("coordinates",
            <<"cannot have more than 100 coordinate pairs">>, ErrTooManyPathPoints)
    ELSE LET i == FirstIndex([k \in 1..Len(g.Coordinates) |->
                        CoordinateError(g.Coordinates[k], k) # NoError])
         IN  IF i = 0 THEN NoError ELSE CoordinateError(g.Coordinates[i], i)

\* returns (geometry, err)
NewGeometry(coordinates) ==
    LET g == [Type |-> "LineString", Coordinates |-> coordinates]
        err == GeometryValidate(g)
    IN  IF err # NoError
        THEN [geometry |-> NoGeometry, err |-> err]
        ELSE [geometry |-> g, err |-> NoError]

NewGeometryFromPoints(points) ==
    IF Len(points) = 0
    THEN [geometry |-> NoGeometry,
          err |-> NewValidationError("points", <<"at least 1 point required">>,
                    ErrInvalidPath)]
    ELSE IF Len(points) > 100
    THEN [geometry |-> NoGeometry,
          err |-> NewValidationError("points", <<"cannot have more than 100 points">>,
                    ErrTooManyPathPoints)]
    ELSE LET i == FirstIndex([k \in 1..Len(points) |->
                        PointValidate(points[k]) # NoError])
         IN  IF i # 0
             THEN [geometry |-> NoGeometry,
                   err |-> WrapError(<<"invalid point at index ", ToString(i - 1), ": ">>,
                                     PointValidate(points[i]))]
             ELSE NewGeometry([k \in 1..Len(points) |->
                                  <<points[k].Lng, points[k].Lat>>])

ToPoints_Swapped(g) ==
    [k \in 1..Len(g.Coordinates) |->
        [Lng |-> g.Coordinates[k][2], Lat |-> g.Coordinates[k][1]]]

ToPoints(g) ==
    [k \in 1..Len(g.Coordinates) |->
        [Lng |-> g.Coordinates[k][1], Lat |-> g.Coordinates[k][2]]]

Digits == {"0", "1", "2", "3", "4", "5", "6", "7", "8", "9"}

\* ^\d{2}\.\d{2}\.\d{2}\.\d{4}$
subdistrictCodeRegex(s) ==
    /\ Len(s) = 13
    /\ \A i \in {3, 6, 9} : s[i] = "."
    /\ \A i \in (1..13) \ {3, 6, 9} : s[i] \in Digits

SubDistrictCodeValidate(s) ==
    IF ~subdistrictCodeRegex(s)
    THEN NewValidationError("subdistrict_code", <<"must match format NN.NN.NN.NNNN">>,
            ErrInvalidSubDistrictCode)
    ELSE NoError

\* strings.TrimSpace(s) == ""
IsBlank(s) == \A i \in 1..Len(s) : s[i] \in {" ", "\t", "\n"}

TitleValidate(t) ==
    IF Len(t) < 3
    THEN NewValidationError("title", <<"must be at least 3 characters">>, ErrInvalidTitle)
    ELSE IF Len(t) > 100
    THEN NewValidationError("title", <<"cannot exceed 100 characters">>, ErrInvalidTitle)
    ELSE IF IsBlank(t)
    THEN NewValidationError("title", <<"cannot be empty or whitespace only">>,
            ErrInvalidTitle)
    ELSE NoError

DescriptionValidate(d) ==
    IF Len(d) > 500
    THEN NewValidationError("description", <<"cannot exceed 500 characters">>,
            ErrInvalidDescription)
    ELSE NoError

\* *Description: a nil pointer, or a pointer to a string
NilDescription == [nil |-> TRUE, s |-> <<>>]
DescriptionPtr(d) == [nil |-> FALSE, s |-> d]

(***************************************************************************)
(* The DamagedRoad entity.                                                 *)
(***************************************************************************)
\* uuid.Nil
UuidNil == "00000000-0000-0000-0000-000000000000"

\* a nil *DamagedRoad
NilRoad ==
    [ID |-> UuidNil, Title |-> <<>>, SubDistrictCode |-> <<>>, Path |-> NoGeometry,
     Description |-> NilDescription, PhotoURLs |-> <<>>, AuthorID |-> UuidNil,
     Status |-> "", CreatedAt |-> -1, UpdatedAt |-> -1]

DamagedRoadValidate(d) ==
    IF TitleValidate(d.Title) # NoError THEN TitleValidate(d.Title)
    ELSE IF SubDistrictCodeValidate(d.SubDistrictCode) # NoError
    THEN SubDistrictCodeValidate(d.SubDistrictCode)
    ELSE IF GeometryValidate(d.Path) # NoError THEN GeometryValidate(d.Path)
    ELSE IF ~d.Description.nil /\ DescriptionValidate(d.Description.s) # NoError
    THEN DescriptionValidate(d.Description.s)
    ELSE IF Len(d.PhotoURLs) < 1
    THEN NewValidationError("photo_urls", <<"at least 1 photo URL required">>,
            ErrInvalidPhotoURLs)
    ELSE IF Len(d.PhotoURLs) > 10
    THEN NewValidationError("photo_urls", <<"cannot have more than 10 photo URLs">>,
            ErrInvalidPhotoURLs)
    ELSE IF ~IsValid(d.Status)
    THEN NewValidationError("status", <<"invalid status value">>, ErrInvalidStatus)
    ELSE IF d.AuthorID = UuidNil
    THEN NewValidationError("author_id", <<"author ID is required">>, ErrRequired)
    ELSE NoError

NewDamagedRoad_Unvalidated(title, subdistrictCode, path, photoURLs, authorID, description, id, t) ==
    [road |-> [ID |-> id, Title |-> title, SubDistrictCode |-> subdistrictCode,
               Path |-> path, Description |-> description, PhotoURLs |-> photoURLs,
               AuthorID |-> authorID, Status |-> StatusSubmitted,
               CreatedAt |-> t, UpdatedAt |-> t],
     err |-> NoError]

\* id is what uuid.New() returns and t what time.Now() returns; gives (road, err)
NewDamagedRoad(title, subdistrictCode, path, photoURLs, authorID, description, id, t) ==
    LET r == [ID |-> id, Title |-> title, SubDistrictCode |-> subdistrictCode,
              Path |-> path, Description |-> description, PhotoURLs |-> photoURLs,
              AuthorID |-> authorID, Status |-> StatusSubmitted,
              CreatedAt |-> t, UpdatedAt |-> t]
        err == DamagedRoadValidate(r)
    IN  IF err # NoError
        THEN [road |-> NilRoad, err |-> err]
        ELSE [road |-> r, err |-> NoError]

DamagedRoadUpdateStatus_StampFirst(d, newStatus, t) ==
    IF ~IsValid(newStatus)
    THEN [road |-> [d EXCEPT !.UpdatedAt = t],
          err |-> NewValidationError("status", <<"invalid status value">>,
                    ErrInvalidStatus)]
    ELSE IF ~CanTransitionTo(d.Status, newStatus)
    THEN [road |-> [d EXCEPT !.UpdatedAt = t],
          err |-> NewValidationError("status",
                    <<"cannot transition from ", d.Status, " to ", newStatus>>,
                    ErrInvalidStatusTransition)]
    ELSE [road |-> [d EXCEPT !.Status = newStatus, !.UpdatedAt = t], err |-> NoError]

\* t is what time.Now() returns; gives the entity after the call and the error
DamagedRoadUpdateStatus(d, newStatus, t) ==
    IF ~IsValid(newStatus)
    THEN [road |-> d,
          err |-> NewValidationError("status", <<"invalid status value">>,
                    ErrInvalidStatus)]
    ELSE IF ~CanTransitionTo(d.Status, newStatus)
    THEN [road |-> d,
          err |-> NewValidationError("status",
                    <<"cannot transition from ", d.Status, " to ", newStatus>>,
                    ErrInvalidStatusTransition)]
    ELSE [road |-> [d EXCEPT !.Status = newStatus, !.UpdatedAt = t], err |-> NoError]

\* CanBeEditedBy without the comparison: every user may edit
CanBeEditedBy_Anyone(d, userID) == TRUE

\* DamagedRoad.CanBeEditedBy: only the author can edit their own report
CanBeEditedBy(d, userID) == d.AuthorID = userID

(***************************************************************************)
(* The photo URL validator (photoValidatorImpl) and the network it probes. *)
(*                                                                         *)
(* A URL string is what url.Parse makes of it: whether it parses, its      *)
(* Scheme and its Hostname(), plus a path that tells URLs of one host      *)
(* apart.  An IP address is a net.IP: a sequence of 4 or of 16 bytes.      *)
(* The network is a record: dns maps a host name to the set of addresses   *)
(* it resolves to (none: the lookup fails), and web maps a probed URL to   *)
(* the responses the servers give to the first, second, ... request of     *)
(* that probe.                                                             *)
(***************************************************************************)
UpperCase == <<"A", "B", "C", "D", "E", "F", "G", "H", "I", "J", "K", "L", "M",
               "N", "O", "P", "Q", "R", "S", "T", "U", "V", "W", "X", "Y", "Z">>
LowerCase == <<"a", "b", "c", "d", "e", "f", "g", "h", "i", "j", "k", "l", "m",
               "n", "o", "p", "q", "r", "s", "t", "u", "v", "w", "x", "y", "z">>

\* strings.ToLower
ToLower(s) ==
    [i \in 1..Len(s) |->
        IF \E k \in 1..Len(UpperCase) : UpperCase[k] = s[i]
        THEN LowerCase[CHOOSE k \in 1..Len(UpperCase) : UpperCase[k] = s[i]]
        ELSE s[i]]

\* strings.HasPrefix
HasPrefix(s, prefix) ==
    Len(s) >= Len(prefix) /\ SubSeq(s, 1, Len(prefix)) = prefix

WhiteSpace == {" ", "\t", "\n", "\r"}

\* strings.TrimSpace
TrimSpace(s) ==
    IF \A i \in 1..Len(s) : s[i] \in WhiteSpace
    THEN <<>>
    ELSE LET first == CHOOSE i \in 1..Len(s) :
                        s[i] \notin WhiteSpace /\ \A j \in 1..(i - 1) : s[j] \in WhiteSpace
             last == CHOOSE i \in 1..Len(s) :
                        s[i] \notin WhiteSpace /\ \A j \in (i + 1)..Len(s) : s[j] \in WhiteSpace
         IN  SubSeq(s, first, last)

\* strings.Split(s, ";")[0]
BeforeSemicolon(s) ==
    IF \E i \in 1..Len(s) : s[i] = ";"
    THEN SubSeq(s, 1, (CHOOSE i \in 1..Len(s) :
                          s[i] = ";" /\ \A j \in 1..(i - 1) : s[j] # ";") - 1)
    ELSE s

NoURL == [parses |-> FALSE, scheme |-> <<>>, host |-> <<>>, path |-> ""]

URL(scheme, host, path) ==
    [parses |-> TRUE, scheme |-> scheme, host |-> host, path |-> path]

\* isLocalhost; Hostname() has stripped the brackets of "[::1]" already
isLocalhost(hostname) ==
    LET h == ToLower(hostname)
    IN  \/ h = <<"l", "o", "c", "a", "l", "h", "o", "s", "t">>
        \/ h = <<"1", "2", "7", ".", "0", ".", "0", ".", "1">>
        \/ h = <<":", ":", "1">>
        \/ HasPrefix(h, <<"1", "2", "7", ".">>)
        \/ h = <<"[", ":", ":", "1", "]">>

\* the 12 bytes that start an IPv4-mapped IPv6 address
v4InV6Prefix == <<0, 0, 0, 0, 0, 0, 0, 0, 0, 0, 255, 255>>

\* net.IP.To4: the 4-byte form, or nil (the empty sequence)
To4(ip) ==
    IF Len(ip) = 4 THEN ip
    ELSE IF Len(ip) = 16 /\ SubSeq(ip, 1, 12) = v4InV6Prefix THEN SubSeq(ip, 13, 16)
    ELSE <<>>

\* 2^n for n in 0..8
Pow2(n) == CASE n = 0 -> 1 [] n = 1 -> 2 [] n = 2 -> 4 [] n = 3 -> 8 [] n = 4 -> 16
             [] n = 5 -> 32 [] n = 6 -> 64 [] n = 7 -> 128 [] n = 8 -> 256

\* net.CIDRMask(ones, 8*bytes): the mask as a sequence of bytes
CIDRMask(ones, bytes) ==
    [i \in 1..bytes |->
        LET bits == IF ones >= 8 * i THEN 8
                    ELSE IF ones <= 8 * (i - 1) THEN 0
                    ELSE ones - 8 * (i - 1)
        IN  256 - Pow2(8 - bits)]

\* x & m for a byte x and a mask byte m of leading ones
And(x, m) == LET unit == 256 - m IN (x \div unit) * unit

\* net.ParseCIDR: the network number and the mask, as long as the family's address
ParseCIDR(ip, ones) == [IP |-> ip, Mask |-> CIDRMask(ones, Len(ip))]

\* networkNumberAndMask
networkNumberAndMask(n) ==
    LET ip == IF To4(n.IP) # <<>> THEN To4(n.IP) ELSE n.IP
        m == IF Len(n.Mask) = 16 /\ Len(ip) = 4 THEN SubSeq(n.Mask, 13, 16) ELSE n.Mask
    IN  [nn |-> ip, m |-> m]

\* IPNet.Contains
Contains(n, ip) ==
    LET nm == networkNumberAndMask(n)
        x == IF To4(ip) # <<>> THEN To4(ip) ELSE ip
    IN  /\ Len(x) = Len(nm.nn)
        /\ \A i \in 1..Len(x) : And(nm.nn[i], nm.m[i]) = And(x[i], nm.m[i])

privateIPv4Blocks ==
    << ParseCIDR(<<10, 0, 0, 0>>, 8),
       ParseCIDR(<<172, 16, 0, 0>>, 12),
       ParseCIDR(<<192, 168, 0, 0>>, 16),
       ParseCIDR(<<169, 254, 0, 0>>, 16),
       ParseCIDR(<<127, 0, 0, 0>>, 8),
       ParseCIDR(<<0, 0, 0, 0>>, 8),
       ParseCIDR(<<100, 64, 0, 0>>, 10) >>

privateIPv6Blocks ==
    << ParseCIDR(<<0, 0, 0, 0, 0, 0, 0, 0, 0, 0, 0, 0, 0, 0, 0, 1>>, 128),
       ParseCIDR(<<254, 128, 0, 0, 0, 0, 0, 0, 0, 0, 0, 0, 0, 0, 0, 0>>, 10),
       ParseCIDR(<<252, 0, 0, 0, 0, 0, 0, 0, 0, 0, 0, 0, 0, 0, 0, 0>>, 7),
       ParseCIDR(<<255, 0, 0, 0, 0, 0, 0, 0, 0, 0, 0, 0, 0, 0, 0, 0>>, 8),
       ParseCIDR(<<0, 0, 0, 0, 0, 0, 0, 0, 0, 0, 255, 255, 0, 0, 0, 0>>, 96) >>

isPrivateOrReservedIP(ip) ==
    \/ \E k \in 1..Len(privateIPv4Blocks) : Contains(privateIPv4Blocks[k], ip)
    \/ /\ To4(ip) = <<>>
       /\ \E k \in 1..Len(privateIPv6Blocks) : Contains(privateIPv6Blocks[k], ip)

\* net.LookupIP: the addresses of the host, none when the resolution fails
LookupIP(net, hostname) ==
    IF hostname \in DOMAIN net.dns THEN net.dns[hostname] ELSE {}

\* validateURL: the error, or NoError
validateURL(net, u) ==
    IF ~u.parses
    THEN Sentinel("invalid URL format")
    ELSE IF ToLower(u.scheme) # <<"h", "t", "t", "p">>
            /\ ToLower(u.scheme) # <<"h", "t", "t", "p", "s">>
    THEN Sentinel("invalid protocol (only HTTP and HTTPS allowed)")
    ELSE IF u.host = <<>>
    THEN Sentinel("missing hostname")
    ELSE IF isLocalhost(u.host)
    THEN Sentinel("localhost and loopback addresses are not allowed (SSRF protection)")
    ELSE IF LookupIP(net, u.host) = {}
    THEN Sentinel("failed to resolve hostname")
    ELSE IF \E ip \in LookupIP(net, u.host) : isPrivateOrReservedIP(ip)
    THEN Sentinel("private, reserved, or link-local IP addresses are not allowed (SSRF protection)")
    ELSE NoError

validateURLResolves_BeforeScheme(u) ==
    /\ u.parses
    /\ u.host # <<>>
    /\ ~isLocalhost(u.host)

\* whether validateURL gets as far as resolving the host name
validateURLResolves(u) ==
    /\ u.parses
    /\ ToLower(u.scheme) \in {<<"h", "t", "t", "p">>, <<"h", "t", "t", "p", "s">>}
    /\ u.host # <<>>
    /\ ~isLocalhost(u.host)

\* what the validator did on the network, in order: resolved a host name
\* ("lookup"), sent a HEAD request ("request")
Event(ev, u) == [ev |-> ev, url |-> u]

validateURLEvents(u) == IF validateURLResolves(u) THEN <<Event("lookup", u)>> ELSE <<>>

\* photoValidatorImpl.IsSecureURL
IsSecureURL(net, u) == validateURL(net, u)

\* a server's answer to one request: a redirect (3xx with a Location), a final
\* response, or none (connection failure, timeout)
Redirect(to) ==
    [kind |-> "redirect", to |-> to, status |-> 302, ctype |-> <<>>, length |-> -1]
Final(status, ctype, length) ==
    [kind |-> "final", to |-> NoURL, status |-> status, ctype |-> ctype, length |-> length]
NoResponse ==
    [kind |-> "fail", to |-> NoURL, status |-> 0, ctype |-> <<>>, length |-> -1]

\* the answer to the k-th request of the probe whose responses are script
Answer(script, k) == IF k <= Len(script) THEN script[k] ELSE NoResponse

\* the http.Client's CheckRedirect(req, via) of NewPhotoValidator
CheckRedirect_NoValidation(net, target, via) ==
    IF Len(via) >= 3
    THEN Sentinel("stopped after 3 redirects")
    ELSE NoError

CheckRedirect(net, target, via) ==
    IF Len(via) >= 3
    THEN Sentinel("stopped after 3 redirects")
    ELSE IF validateURL(net, target) # NoError
    THEN WrapError(<<"unsafe redirect target: ">>, validateURL(net, target))
    ELSE NoError

CheckRedirectEvents(target, via) ==
    IF Len(via) >= 3 THEN <<>> ELSE validateURLEvents(target)

\* http.Client.Do: send req, and while the answer is a redirect, ask
\* CheckRedirect and send the next request.  via holds the requests made so far.
\* Gives the final response or the error, and the events.
RECURSIVE ClientDo(_, _, _, _)
ClientDo(net, script, req, via) ==
    LET reqs == Append(via, req)
        resp == Answer(script, Len(reqs))
        sent == <<Event("request", req)>>
    IN  IF resp.kind = "fail"
        THEN [resp |-> NoResponse, err |-> Sentinel("connection failed"), events |-> sent]
        ELSE IF resp.kind = "final"
        THEN [resp |-> resp, err |-> NoError, events |-> sent]
        ELSE LET err == CheckRedirect(net, resp.to, reqs)
                 checked == sent \o CheckRedirectEvents(resp.to, reqs)
             IN  IF err # NoError
                 THEN [resp |-> NoResponse, err |-> err, events |-> checked]
                 ELSE LET rest == ClientDo(net, script, resp.to, reqs)
                      IN  [rest EXCEPT !.events = checked \o rest.events]

validTypes ==
    << <<"i", "m", "a", "g", "e", "/", "j", "p", "e", "g">>,
       <<"i", "m", "a", "g", "e", "/", "j", "p", "g">>,
       <<"i", "m", "a", "g", "e", "/", "p", "n", "g">>,
       <<"i", "m", "a", "g", "e", "/", "w", "e", "b", "p">> >>

isValidImageContentType_AnyImage(contentType) ==
    HasPrefix(TrimSpace(ToLower(BeforeSemicolon(contentType))), <<"i", "m", "a", "g", "e", "/">>)

isValidImageContentType(contentType) ==
    LET t == TrimSpace(ToLower(BeforeSemicolon(contentType)))
    IN  \E k \in 1..Len(validTypes) : t = validTypes[k]

\* PhotoValidationResult, and the events of the call that made it
Invalid(u, error, events) ==
    [URL |-> u, Valid |-> FALSE, Error |-> error, ContentType |-> <<>>,
     SizeBytes |-> 0, events |-> events]

\* photoValidatorImpl.ValidateURL
ValidateURL(net, u) ==
    IF IsSecureURL(net, u) # NoError
    THEN Invalid(u, ErrorText(IsSecureURL(net, u)), validateURLEvents(u))
    ELSE LET do == ClientDo(net, net.web[u], u, <<>>)
             events == validateURLEvents(u) \o do.events
         IN  IF do.err # NoError
             THEN Invalid(u, <<"URL not accessible: ">> \o ErrorText(do.err), events)
             ELSE IF do.resp.status < 200 \/ do.resp.status >= 300
             THEN Invalid(u, <<"HTTP ", ToString(do.resp.status), ": URL not accessible">>,
                          events)
             ELSE IF ~isValidImageContentType(do.resp.ctype)
             THEN Invalid(u, <<"invalid content type: ">> \o do.resp.ctype
                             \o <<" (expected image/jpeg, image/png, or image/webp)">>,
                          events)
             ELSE [URL |-> u, Valid |-> TRUE, Error |-> <<>>,
                   ContentType |-> do.resp.ctype,
                   SizeBytes |-> IF do.resp.length > 0 THEN do.resp.length ELSE 0,
                   events |-> events]

ValidateURLs_StopAtFirstInvalid(net, urls) ==
    LET i == FirstIndex([k \in 1..Len(urls) |-> ~ValidateURL(net, urls[k]).Valid])
    IN  [k \in 1..Len(urls) |->
            IF i = 0 \/ k <= i
            THEN ValidateURL(net, urls[k])
            ELSE Invalid(urls[k], <<>>, <<>>)]

\* photoValidatorImpl.ValidateURLs
ValidateURLs(net, urls) == [i \in 1..Len(urls) |-> ValidateURL(net, urls[i])]

(***************************************************************************)
(* Sample values (spec.md, end-to-end scenario A).                         *)
(***************************************************************************)
Users == {"user-1", "user-2"}

\* "Jalan"
SampleTitle == <<"J", "a", "l", "a", "n">>
\* "35.10.02.2005"
SampleCode == <<"3", "5", ".", "1", "0", ".", "0", "2", ".", "2", "0", "0", "5">>
\* (-7.2575, 112.7521)
SamplePoint == Point(-72575, 1127521)
\* "https://example.com/photo1.jpg"
SamplePhoto == URL(<<"h", "t", "t", "p", "s">>, <<"e", "x", "a", "m", "p", "l", "e", ".", "c", "o", "m">>, "/photo1.jpg")

(***************************************************************************)
(* The networks and URLs the validator is tried on.                        *)
(***************************************************************************)
\* how many redirects a server script holds before its last response
MaxRedirects == 4

\* host names
HostPhoto == <<"p", "h", "o", "t", "o", ".", "e", "x", "a", "m", "p", "l", "e">>
HostCdn == <<"c", "d", "n", ".", "e", "x", "a", "m", "p", "l", "e">>
HostIntranet == <<"i", "n", "t", "r", "a", "n", "e", "t", ".", "e", "x", "a", "m", "p", "l", "e">>
HostMetadata == <<"1", "6", "9", ".", "2", "5", "4", ".", "1", "6", "9", ".", "2", "5", "4">>
HostLocal == <<"L", "o", "c", "a", "l", "H", "o", "s", "t">>
HostLoopback == <<"1", "2", "7", ".", "0", ".", "0", ".", "1">>
HostLoopback127 == <<"1", "2", "7", ".", "8", ".", "8", ".", "8">>
HostLoopback6 == <<":", ":", "1">>
HostUnknown == <<"n", "x", "d", "o", "m", "a", "i", "n", ".", "e", "x", "a", "m", "p", "l", "e">>

IPv4(a, b, c, d) == <<a, b, c, d>>
\* an IPv6 address whose bytes 3..14 are zero
IPv6(b1, b2, b15, b16) == <<b1, b2, 0, 0, 0, 0, 0, 0, 0, 0, 0, 0, 0, 0, b15, b16>>
\* the IPv4-mapped IPv6 address ::ffff:a.b.c.d
Mapped(a, b, c, d) == v4InV6Prefix \o <<a, b, c, d>>

PublicV4 == IPv4(8, 8, 8, 8)

\* addresses a name server may answer with: inside and just outside each range
Addresses ==
    { PublicV4,
      IPv4(10, 1, 2, 3), IPv4(11, 0, 0, 1),
      IPv4(172, 16, 0, 1), IPv4(172, 31, 255, 254), IPv4(172, 32, 0, 1),
      IPv4(172, 15, 255, 254),
      IPv4(192, 168, 1, 1), IPv4(192, 169, 1, 1),
      IPv4(169, 254, 169, 254), IPv4(169, 253, 1, 1),
      IPv4(127, 0, 0, 1), IPv4(0, 1, 2, 3),
      IPv4(100, 64, 0, 1), IPv4(100, 127, 255, 254), IPv4(100, 128, 0, 1),
      IPv6(0, 0, 0, 1), IPv6(0, 0, 0, 2),
      IPv6(254, 128, 0, 1), IPv6(254, 191, 0, 1), IPv6(254, 192, 0, 1),
      IPv6(252, 0, 0, 1), IPv6(253, 18, 0, 1), IPv6(255, 2, 0, 1),
      IPv6(32, 1, 136, 136),
      Mapped(10, 1, 2, 3), Mapped(8, 8, 8, 8) }

\* what the name server answers for HostPhoto: nothing, one address, or the
\* public address and another one
Answers ==
    {{}} \cup { {a} : a \in Addresses } \cup { {PublicV4, a} : a \in Addresses }

\* the other names; LookupIP answers an IP literal with the address itself
FixedDNS ==
    (HostCdn :> {IPv4(93, 184, 216, 34)}) @@
    (HostIntranet :> {IPv4(10, 1, 2, 3)}) @@
    (HostMetadata :> {IPv4(169, 254, 169, 254)}) @@
    (<<"e", "x", "a", "m", "p", "l", "e", ".", "c", "o", "m">> :> {IPv4(93, 184, 216, 34)})

Schemes == { <<"h", "t", "t", "p">>, <<"h", "t", "t", "p", "s">>, <<"H", "T", "T", "P">>, <<"f", "t", "p">> }

\* the URLs given to the validator
URLInputs ==
    { URL(scheme, host, "/photo.jpg") :
        scheme \in Schemes,
        host \in { HostPhoto, HostIntranet, HostMetadata, HostLocal, HostLoopback,
                   HostLoopback127, HostLoopback6, HostUnknown, <<>> } }
    \cup {NoURL}

\* where a server may redirect to
RedirectTargets ==
    { URL(<<"h", "t", "t", "p", "s">>, HostCdn, "/a.jpg"),
      URL(<<"h", "t", "t", "p">>, HostMetadata, "/latest/meta-data"),
      URL(<<"h", "t", "t", "p">>, HostLocal, "/admin") }

\* how a server may end a probe
LastResponses ==
    { Final(200, <<"i", "m", "a", "g", "e", "/", "p", "n", "g">>, 2048),
      Final(200, <<"I", "m", "a", "g", "e", "/", "J", "P", "E", "G", ";", " ", "c", "h", "a", "r", "s", "e", "t", "=", "b", "i", "n", "a", "r", "y">>, -1),
      Final(200, <<"t", "e", "x", "t", "/", "h", "t", "m", "l">>, 512),
      Final(404, <<"t", "e", "x", "t", "/", "h", "t", "m", "l">>, 0),
      NoResponse }

\* the sequences of n redirects
RECURSIVE RedirectChains(_)
RedirectChains(n) ==
    IF n = 0 THEN {<<>>}
    ELSE { <<Redirect(t)>> \o c : t \in RedirectTargets, c \in RedirectChains(n - 1) }

\* the server scripts: up to n redirects, then a last response
Scripts(n) ==
    { c \o <<last>> : c \in UNION { RedirectChains(k) : k \in 0..n },
                      last \in LastResponses }

Network(answer, u, script) ==
    [dns |-> (HostPhoto :> answer) @@ FixedDNS, web |-> (u :> script)]

\* the Content-Type headers a server may declare; <<>> is a missing header
ContentTypeInputs ==
    { <<"i", "m", "a", "g", "e", "/", "j", "p", "e", "g">>, <<"i", "m", "a", "g", "e", "/", "j", "p", "g">>, <<"i", "m", "a", "g", "e", "/", "p", "n", "g">>, <<"i", "m", "a", "g", "e", "/", "w", "e", "b", "p">>,
      <<"I", "M", "A", "G", "E", "/", "P", "N", "G">>, <<"I", "m", "a", "g", "e", "/", "J", "p", "e", "g", ";", " ", "c", "h", "a", "r", "s", "e", "t", "=", "b", "i", "n", "a", "r", "y">>, <<" ", "i", "m", "a", "g", "e", "/", "w", "e", "b", "p", " ">>,
      <<"i", "m", "a", "g", "e", "/", "j", "p", "g", " ", ";", "q", "=", "1">>, <<"t", "e", "x", "t", "/", "h", "t", "m", "l">>, <<>>, <<"i", "m", "a", "g", "e", "/", "g", "i", "f">>, <<"i", "m", "a", "g", "e", "/", "p", "n", "g", "x">>,
      <<"i", "m", "a", "g", "e">>, <<"m", "a", "g", "e", "/", "p", "n", "g">>, <<"t", "e", "x", "t", "/", "h", "t", "m", "l", ";", " ", "i", "m", "a", "g", "e", "/", "p", "n", "g">>, <<";", "i", "m", "a", "g", "e", "/", "p", "n", "g">>,
      <<"a", "p", "p", "l", "i", "c", "a", "t", "i", "o", "n", "/", "o", "c", "t", "e", "t", "-", "s", "t", "r", "e", "a", "m">>, <<"i", "m", "a", "g", "e", " ", "/", " ", "p", "n", "g">> }

\* the status codes of a last response
StatusCodes == {200, 201, 299, 300, 404}

\* the probes tried: the URLs of HostPhoto under every answer of the name
\* server, and every other URL, each with a server that answers at once; and
\* the plain URLs of HostPhoto against every script
ProbeInputs ==
    { [url |-> u, net |-> Network(answer, u, script)] :
        u \in { URL(scheme, HostPhoto, "/photo.jpg") : scheme \in Schemes },
        answer \in Answers, script \in Scripts(0) }
    \cup
    { [url |-> u, net |-> Network({PublicV4}, u, script)] :
        u \in URLInputs, script \in Scripts(0) }
    \cup
    { [url |-> u, net |-> Network({PublicV4}, u, script)] :
        u \in { URL(scheme, HostPhoto, "/photo.jpg") : scheme \in {<<"h", "t", "t", "p", "s">>, <<"H", "T", "T", "P">>} },
        script \in Scripts(MaxRedirects) }
    \cup
    { [url |-> URL(<<"h", "t", "t", "p", "s">>, HostPhoto, "/photo.jpg"),
       net |-> Network({PublicV4}, URL(<<"h", "t", "t", "p", "s">>, HostPhoto, "/photo.jpg"),
                       <<Final(status, ctype, 2048)>>)] :
        status \in StatusCodes, ctype \in ContentTypeInputs }

\* "https://cdn.example/page.html"
PagePhoto == URL(<<"h", "t", "t", "p", "s">>, HostCdn, "/page.html")
\* "http://169.254.169.254/latest/meta-data"
MetadataPhoto == URL(<<"h", "t", "t", "p">>, HostMetadata, "/latest/meta-data")

\* the network of scenario A: example.com serves the photo, cdn.example a page
SampleNet ==
    [dns |-> FixedDNS,
     web |-> (SamplePhoto :> <<Final(200, <<"i", "m", "a", "g", "e", "/", "j", "p", "e", "g">>, 34567)>>) @@
             (PagePhoto :> <<Final(200, <<"t", "e", "x", "t", "/", "h", "t", "m", "l">>, 512)>>)]

NoResult == Invalid(NoURL, <<>>, <<>>)
NoProbe == [op |-> "", url |-> NoURL, net |-> SampleNet, res |-> NoResult]

\* "https://photo.example/photo.jpg": redirects to http://LocalHost/admin
MovedPhoto == URL(<<"h", "t", "t", "p", "s">>, HostPhoto, "/photo.jpg")
\* "https://photo.example/gone.jpg": not found
GonePhoto == URL(<<"h", "t", "t", "p", "s">>, HostPhoto, "/gone.jpg")

\* the network of the batches
BatchNet ==
    [dns |-> (HostPhoto :> {PublicV4}) @@ FixedDNS,
     web |-> (SamplePhoto :> <<Final(200, <<"i", "m", "a", "g", "e", "/", "j", "p", "e", "g">>, 34567)>>) @@
             (PagePhoto :> <<Final(200, <<"t", "e", "x", "t", "/", "h", "t", "m", "l">>, 512)>>) @@
             (MovedPhoto :> <<Redirect(URL(<<"h", "t", "t", "p">>, HostLocal, "/admin")),
                              Final(200, <<"i", "m", "a", "g", "e", "/", "p", "n", "g">>, 2048)>>) @@
             (GonePhoto :> <<Final(404, <<"t", "e", "x", "t", "/", "h", "t", "m", "l">>, 0)>>)]

BatchURLs == {SamplePhoto, PagePhoto, MetadataPhoto, MovedPhoto, GonePhoto}

\* how many URLs a batch holds
MaxBatch == 3

\* the sequences of n of these URLs
RECURSIVE BatchesOf(_)
BatchesOf(n) ==
    IF n = 0 THEN {<<>>}
    ELSE { <<u>> \o b : u \in BatchURLs, b \in BatchesOf(n - 1) }

BatchInputs == UNION { BatchesOf(n) : n \in 0..MaxBatch }

NoBatch == [op |-> "", net |-> SampleNet, urls |-> <<>>, results |-> <<>>]

\* entities.Point{}
ZeroPoint == Point(0, 0)

\* no call of the geometry service or of the geometry value object
NoGeometryCall ==
    [op |-> "",
     in |-> [points |-> <<>>, code |-> <<>>, table |-> <<>>, fails |-> FALSE],
     err |-> NoError, geometry |-> NoGeometry, points |-> <<>>, centroid |-> ZeroPoint,
     distance |-> 0]

\* no answer written to the HTTP response yet
NoReply == [status |-> 0, error |-> "", message |-> <<>>]

\* no request to PATCH /damaged-roads/:id/status
NoPatch ==
    [pc |-> "", header |-> <<>>, idParam |-> "", body |-> "",
     findFails |-> FALSE, saveFails |-> FALSE, stored |-> NilRoad,
     keys |-> <<>>, served |-> FALSE, road |-> NilRoad, reply |-> NoReply]
\* the clients that present refresh tokens
Sessions == {"client-1", "client-2"}

\* no RefreshToken call in progress
IdleRefresh ==
    [pc |-> "idle", refreshToken |-> "", afterLogout |-> FALSE,
     tokenEntity |-> <<>>, accessToken |-> "", err |-> NoError]

\* no refresh token stored, no call in progress
NoAuth == [tokens |-> {}, calls |-> [s \in Sessions |-> IdleRefresh], revoked |-> {}]
\* no ResetPassword call in progress
IdleReset ==
    [pc |-> "idle", token |-> "", newPassword |-> <<>>, afterSuccess |-> FALSE,
     tokenEntity |-> <<>>, changed |-> FALSE, err |-> NoError]

\* no user, no reset token, no call in progress
NoPasswords ==
    [tokens |-> {}, users |-> <<>>, calls |-> [s \in Sessions |-> IdleReset],
     spent |-> {}]
\* no CreateReport call
\* a ValidateURL call not yet made, with its connections: the name server's
\* answers at the security check (net.dns), its answers when the transport
\* of the http.Client resolves the host to connect (dial), and the address of
\* each connection made
NoDial == [op |-> "", url |-> NoURL, net |-> SampleNet, dial |-> FixedDNS,
           res |-> NoResult, conns |-> <<>>]
NoCreate ==
    [pc |-> "", in |-> [title |-> <<>>, subdistrictCode |-> <<>>, pathPoints |-> <<>>,
                        photoURLs |-> <<>>, authorID |-> UuidNil,
                        description |-> NilDescription],
     cancelled |-> FALSE, log |-> <<>>, photoResults |-> <<>>,
     geometry |-> NoGeometry, road |-> NilRoad, err |-> NoError, reply |-> NoReply]

\* the users who ask for a deletion: the authors and a verificator
Requesters == Users \cup {"verificator-1"}

\* no DeleteReport call in progress
IdleDelete ==
    [pc |-> "idle", id |-> "", requesterID |-> "", stored |-> FALSE,
     found |-> NilRoad, invoked |-> FALSE, err |-> NoError]
\* no call made yet
NoCall == [op |-> "", newStatus |-> "", err |-> NoError, before |-> NilRoad]
NoTransitionCall == [called |-> FALSE, s |-> "", newStatus |-> "", result |-> FALSE]

\* time passes
Tick ==
    /\ now < MaxClock
    /\ now' = now + 1

(***************************************************************************)
(* ReportServiceImpl.UpdateReportStatus over DamagedRoadRepository.  Each   *)
(* caller is a request goroutine; a call is three steps, FindByID, the     *)
(* entity's UpdateStatus on the copy it read, and the repository's         *)
(* UpdateStatus, and the steps of different callers interleave freely.     *)
(* Every statement on the database may fail with a driver error.  The      *)
(* calls are short against the clock's tick: time stands still here.       *)
(***************************************************************************)
\* the callers, named by the requesterID each passes: an ordinary user and a
\* verificator
Callers == {"user-2", "verificator-1"}

\* the newStatus values callers ask for: the six statuses and an unknown string
RequestedStatuses == { AllStatuses[i] : i \in 1..Len(AllStatuses) } \cup {"rejected"}

\* the report the table holds at the start, and an id the table never holds
StoredID == "report-1"
MissingID == "report-9"

IdleCall ==
    [pc |-> "idle", id |-> "", newStatus |-> "", requesterID |-> "",
     found |-> NilRoad, road |-> NilRoad, err |-> NoError, during |-> {}]

\* the callers whose call is between its FindByID and its return
InFlight == { c \in Callers : calls[c].pc \in {"check", "save"} }

\* SELECT ... FROM damaged_roads WHERE id = $1: the row, or nil for sql.ErrNoRows
RepoFindByID(id) ==
    IF \E r \in db : r.ID = id THEN CHOOSE r \in db : r.ID = id ELSE NilRoad

\* UPDATE damaged_roads SET status = $1, updated_at = NOW() WHERE id = $2:
\* the table after the statement
RepoUpdateStatus(table, id, status, t) ==
    { IF r.ID = id THEN [r EXCEPT !.Status = status, !.UpdatedAt = t] ELSE r :
        r \in table }

\* result.RowsAffected() of that statement
RowsAffected(table, id) == Cardinality({ r \in table : r.ID = id })

\* UpdateReportStatus, lines 214-232: s.repo.FindByID and the nil check
FindByID(c, id, newStatus, fails) ==
    /\ calls[c].pc = "idle"
    /\ LET started == [IdleCall EXCEPT !.id = id, !.newStatus = newStatus,
                          !.requesterID = c, !.during = InFlight]
           row == RepoFindByID(id)
       IN  calls' = [calls EXCEPT ![c] =
              IF fails
              THEN [started EXCEPT !.pc = "done",
                      !.err = WrapError(<<"failed to get report: ">>,
                                  NewDatabaseError("find damaged road by id"))]
              ELSE IF row = NilRoad
              THEN [started EXCEPT !.pc = "done", !.err = Sentinel(ErrReportNotFound)]
              ELSE [started EXCEPT !.pc = "check", !.found = row, !.road = row]]
    /\ UNCHANGED <<now, geoVars, db, entityVars, photoVars, createVars, dels, hp, au, pw, rb>>

\* UpdateReportStatus, lines 234-243: road.UpdateStatus(newStatus) on the copy
CheckTransition(c) ==
    /\ calls[c].pc = "check"
    /\ LET r == DamagedRoadUpdateStatus(calls[c].road, calls[c].newStatus, now)
       IN  calls' = [calls EXCEPT ![c] =
              IF r.err # NoError
              THEN [@ EXCEPT !.pc = "done", !.err = r.err, !.road = NilRoad]
              ELSE [@ EXCEPT !.pc = "save", !.road = r.road]]
    /\ UNCHANGED <<now, geoVars, db, entityVars, photoVars, createVars, dels, hp, au, pw, rb>>

\* UpdateReportStatus, lines 245-259: s.repo.UpdateStatus and the return
SaveStatus(c, fails) ==
    /\ calls[c].pc = "save"
    /\ IF fails
       THEN /\ calls' = [calls EXCEPT ![c] =
                  [@ EXCEPT !.pc = "done", !.road = NilRoad,
                     !.err = WrapError(<<"failed to update status: ">>,
                                 NewDatabaseError("update status"))]]
            /\ UNCHANGED db
       ELSE IF RowsAffected(db, calls[c].id) = 0
       THEN /\ calls' = [calls EXCEPT ![c] =
                  [@ EXCEPT !.pc = "done", !.road = NilRoad,
                     !.err = WrapError(<<"failed to update status: ">>,
                                 Sentinel(ErrRecordNotFound))]]
            /\ UNCHANGED db
       ELSE /\ db' = RepoUpdateStatus(db, calls[c].id, calls[c].newStatus, now)
            /\ calls' = [calls EXCEPT ![c] = [@ EXCEPT !.pc = "done"]]
    /\ UNCHANGED <<now, geoVars, entityVars, photoVars, createVars, dels, hp, au, pw, rb>>

\* the caller has its answer and may call again
Return(c) ==
    /\ calls[c].pc = "done"
    /\ calls' = [calls EXCEPT ![c] = IdleCall]
    /\ UNCHANGED <<now, geoVars, db, entityVars, photoVars, createVars, dels, hp, au, pw, rb>>

InitStatus ==
    /\ now = 0
    /\ rb = NoDial
    /\ pw = NoPasswords
    /\ au = NoAuth
    /\ hp = NoPatch
    /\ dels = [c \in Requesters |-> IdleDelete]
    /\ gc = NoGeometryCall
    /\ road = NilRoad
    /\ ret = NoCall
    /\ ct = NoTransitionCall
    /\ \E author \in Users :
          db = { NewDamagedRoad(SampleTitle, SampleCode,
                    NewGeometryFromPoints(<<SamplePoint>>).geometry,
                    <<SamplePhoto>>, author, NilDescription, StoredID, 0).road }
    /\ calls = [c \in Callers |-> IdleCall]
    /\ pv = NoProbe
    /\ vb = NoBatch
    /\ cr = NoCreate

NextStatus ==
    \/ \E c \in Callers, id \in {StoredID, MissingID},
          newStatus \in RequestedStatuses, fails \in BOOLEAN :
            FindByID(c, id, newStatus, fails)
    \/ \E c \in Callers : CheckTransition(c)
    \/ \E c \in Callers, fails \in BOOLEAN : SaveStatus(c, fails)
    \/ \E c \in Callers : Return(c)

SpecStatus == InitStatus /\ [][NextStatus]_vars

(***************************************************************************)
(* ReportServiceImpl.DeleteReport over DamagedRoadRepository.  A call is   *)
(* three steps: FindByID, the CanBeEditedBy check on the copy it read, and *)
(* the repository's Delete; the steps of different requesters interleave.  *)
(***************************************************************************)
\* DELETE FROM damaged_roads WHERE id = $1: the table after the statement
RepoDelete(table, id) == { r \in table : r.ID # id }

\* DeleteReport, lines 270-281: s.repo.FindByID and the nil check
DeleteFindByID(c, id, fails) ==
    /\ dels[c].pc = "idle"
    /\ LET row == RepoFindByID(id)
           started == [IdleDelete EXCEPT !.id = id, !.requesterID = c,
                          !.stored = (row # NilRoad)]
       IN  dels' = [dels EXCEPT ![c] =
              IF fails
              THEN [started EXCEPT !.pc = "done",
                      !.err = WrapError(<<"failed to get report: ">>,
                                  NewDatabaseError("find damaged road by id"))]
              ELSE IF row = NilRoad
              THEN [started EXCEPT !.pc = "done", !.err = Sentinel(ErrReportNotFound)]
              ELSE [started EXCEPT !.pc = "authorize", !.found = row]]
    /\ UNCHANGED <<now, geoVars, entityVars, statusVars, photoVars, createVars, hp, au, pw, rb>>

\* DeleteReport, lines 283-291: road.CanBeEditedBy(requesterID)
DeleteAuthorize(c) ==
    /\ dels[c].pc = "authorize"
    /\ dels' = [dels EXCEPT ![c] =
          IF ~CanBeEditedBy(dels[c].found, dels[c].requesterID)
          THEN [@ EXCEPT !.pc = "done", !.err = Sentinel(ErrUnauthorizedAccess)]
          ELSE [@ EXCEPT !.pc = "delete"]]
    /\ UNCHANGED <<now, geoVars, entityVars, statusVars, photoVars, createVars, hp, au, pw, rb>>

\* DeleteReport, lines 293-306: s.repo.Delete and the return
DeleteRow(c, fails) ==
    /\ dels[c].pc = "delete"
    /\ IF fails
       THEN /\ dels' = [dels EXCEPT ![c] =
                  [@ EXCEPT !.pc = "done", !.invoked = TRUE,
                     !.err = WrapError(<<"failed to delete report: ">>,
                                 NewDatabaseError("delete damaged road"))]]
            /\ UNCHANGED db
       ELSE IF RowsAffected(db, dels[c].id) = 0
       THEN /\ dels' = [dels EXCEPT ![c] =
                  [@ EXCEPT !.pc = "done", !.invoked = TRUE,
                     !.err = WrapError(<<"failed to delete report: ">>,
                                 Sentinel(ErrRecordNotFound))]]
            /\ UNCHANGED db
       ELSE /\ db' = RepoDelete(db, dels[c].id)
            /\ dels' = [dels EXCEPT ![c] = [@ EXCEPT !.pc = "done", !.invoked = TRUE]]
    /\ UNCHANGED <<now, geoVars, entityVars, calls, photoVars, createVars, hp, au, pw, rb>>

\* the requester has its answer and may call again
DeleteReturn(c) ==
    /\ dels[c].pc = "done"
    /\ dels' = [dels EXCEPT ![c] = IdleDelete]
    /\ UNCHANGED <<now, geoVars, entityVars, statusVars, photoVars, createVars, hp, au, pw, rb>>

NextDelete ==
    \/ \E c \in Requesters, id \in {StoredID, MissingID}, fails \in BOOLEAN :
          DeleteFindByID(c, id, fails)
    \/ \E c \in Requesters : DeleteAuthorize(c)
    \/ \E c \in Requesters, fails \in BOOLEAN : DeleteRow(c, fails)
    \/ \E c \in Requesters : DeleteReturn(c)

\* the table holds one report of either author, as in InitStatus
SpecDelete == InitStatus /\ [][NextDelete]_vars

(***************************************************************************)
(* ReportServiceImpl.CreateReport, stage by stage.                         *)
(***************************************************************************)
ValidateCoordinatesInBoundary_Exclusive(points) ==
    IF \E k \in 1..Len(points) :
            \/ points[k].Lat <= Deg(-11) \/ points[k].Lat >= Deg(6)
            \/ points[k].Lng <= Deg(95) \/ points[k].Lng >= Deg(141)
    THEN WrapSentinel(ErrCoordinatesOutOfBounds, <<"coordinate">>)
    ELSE NoError

ValidateCoordinatesInBoundary_LastIndex(points) ==
    LET bad == { k \in 1..Len(points) :
                    \/ points[k].Lat < Deg(-11) \/ points[k].Lat > Deg(6)
                    \/ points[k].Lng < Deg(95) \/ points[k].Lng > Deg(141) }
        i == IF bad = {} THEN 0 ELSE CHOOSE k \in bad : \A j \in bad : j <= k
    IN  IF i = 0
        THEN NoError
        ELSE IF points[i].Lat < Deg(-11) \/ points[i].Lat > Deg(6)
        THEN WrapSentinel(ErrCoordinatesOutOfBounds,
                <<"coordinate ", ToString(i - 1), " latitude ", ToString(points[i].Lat),
                  " is outside Indonesian bounds [-11.0, 6.0]">>)
        ELSE WrapSentinel(ErrCoordinatesOutOfBounds,
                <<"coordinate ", ToString(i - 1), " longitude ", ToString(points[i].Lng),
                  " is outside Indonesian bounds [95.0, 141.0]">>)

\* geometryServiceImpl.ValidateCoordinatesInBoundary; the coordinate is
\* printed in the model's unit
ValidateCoordinatesInBoundary(points) ==
    LET i == FirstIndex([k \in 1..Len(points) |->
                    \/ points[k].Lat < Deg(-11) \/ points[k].Lat > Deg(6)
                    \/ points[k].Lng < Deg(95) \/ points[k].Lng > Deg(141)])
    IN  IF i = 0
        THEN NoError
        ELSE IF points[i].Lat < Deg(-11) \/ points[i].Lat > Deg(6)
        THEN WrapSentinel(ErrCoordinatesOutOfBounds,
                <<"coordinate ", ToString(i - 1), " latitude ", ToString(points[i].Lat),
                  " is outside Indonesian bounds [-11.0, 6.0]">>)
        ELSE WrapSentinel(ErrCoordinatesOutOfBounds,
                <<"coordinate ", ToString(i - 1), " longitude ", ToString(points[i].Lng),
                  " is outside Indonesian bounds [95.0, 141.0]">>)

\* the subdistrict_centroids table of the boundary repository
BoundaryCodes == {SampleCode}

\* what the database driver returns when the store cannot be reached
DriverError == Sentinel("driver error")

\* boundaryRepository.GetCentroid: table is subdistrict_centroids as a function
\* from code to centroid, fails whether the query fails; gives (centroid, err)
GetCentroid(table, subDistrictCode, fails) ==
    IF fails
    THEN [centroid |-> ZeroPoint,
          err |-> WrapError(<<"failed to retrieve centroid for ">> \o subDistrictCode
                               \o <<": ">>, DriverError)]
    ELSE IF subDistrictCode \notin DOMAIN table
    THEN [centroid |-> ZeroPoint,
          err |-> WrapSentinel(ErrSubDistrictNotFound,
                    <<"subdistrict code ">> \o subDistrictCode
                        \o <<" not found in boundary dataset">>)]
    ELSE [centroid |-> table[subDistrictCode], err |-> NoError]

\* geometryServiceImpl.GetSubDistrictCentroid; gives (centroid, err)
GetSubDistrictCentroid(table, subDistrictCode, fails) ==
    LET got == GetCentroid(table, subDistrictCode, fails)
    IN  IF got.err # NoError
        THEN [centroid |-> ZeroPoint,
              err |-> WrapSentinel(ErrSubDistrictNotFound, ErrorText(got.err))]
        ELSE [centroid |-> got.centroid, err |-> NoError]


(***************************************************************************)
(* geometryServiceImpl.CalculateDistance.  The float64 arithmetic is in    *)
(* fixed point: angles and ratios are counted in 1/10000 (of a radian, of  *)
(* one), the haversine term a in 1/10000^2, the distance in whole meters.  *)
(* Every operation rounds to the nearest unit, away from zero on a tie, so *)
(* that rounding commutes with negation as IEEE 754 rounding does.  The    *)
(* series stand for math.Sin, math.Cos and math.Atan2 on arguments of at   *)
(* most one radian, which covers every pair of points of the Indonesian    *)
(* bounds.                                                                 *)
(***************************************************************************)
\* one, and one radian, in fixed point: the unit of Deg
One == Deg(1)

\* math.Pi in fixed point
Pi == 31416

\* earthRadiusMeters
earthRadiusMeters == 6371000

\* n / q rounded to the nearest integer
Round(n, q) ==
    IF n >= 0 THEN (2 * n + q) \div (2 * q) ELSE -((2 * (-n) + q) \div (2 * q))

\* x * y of two fixed-point numbers
Mul(x, y) == Round(x * y, One)

\* degreesToRadians: degrees * math.Pi / 180.0, degrees in 1/10000 degree;
\* math.Pi / 180 is 349 / 20000 to four digits
degreesToRadians(degrees) == Round(degrees * 349, 20000)

\* math.Sin(x): x - x^3/3! + x^5/5! - x^7/7!
Sin(x) ==
    LET x2 == Mul(x, x)
        x3 == Mul(x2, x)
        x5 == Mul(x3, x2)
        x7 == Mul(x5, x2)
    IN  x - Round(x3, 6) + Round(x5, 120) - Round(x7, 5040)

\* math.Cos(x): 1 - x^2/2! + x^4/4! - x^6/6!
Cos(x) ==
    LET x2 == Mul(x, x)
        x4 == Mul(x2, x2)
        x6 == Mul(x4, x2)
    IN  One - Round(x2, 2) + Round(x4, 24) - Round(x6, 720)

\* the largest r in lo..hi with r * r <= a, by bisection
RECURSIVE RootBetween(_, _, _)
RootBetween(a, lo, hi) ==
    IF lo = hi THEN lo
    ELSE LET mid == (lo + hi + 1) \div 2
         IN  IF mid * mid <= a THEN RootBetween(a, mid, hi)
             ELSE RootBetween(a, lo, mid - 1)

\* math.Sqrt(a) of a counted in 1/10000^2: the root counted in 1/10000
Sqrt(a) == RootBetween(a, 0, One)

\* math.Atan(t) for 0 <= t <= 1: t - t^3/3 + t^5/5 - t^7/7 + t^9/9
Atan(t) ==
    LET t2 == Mul(t, t)
        t3 == Mul(t2, t)
        t5 == Mul(t3, t2)
        t7 == Mul(t5, t2)
        t9 == Mul(t7, t2)
    IN  t - Round(t3, 3) + Round(t5, 5) - Round(t7, 7) + Round(t9, 9)

\* math.Atan2(y, x) for y >= 0 and x >= 0, as the two square roots are
Atan2(y, x) ==
    IF y = 0 THEN 0
    ELSE IF x = 0 THEN Round(Pi, 2)
    ELSE IF y <= x THEN Atan(Round(y * One, x))
    ELSE Round(Pi, 2) - Atan(Round(x * One, y))

\* CalculateDistance with both cosines taken at point1
CalculateDistance_OneLatitude(point1, point2) ==
    LET lat1Rad == degreesToRadians(point1.Lat)
        deltaLatRad == degreesToRadians(point2.Lat - point1.Lat)
        deltaLngRad == degreesToRadians(point2.Lng - point1.Lng)
        sinLat == Sin(Round(deltaLatRad, 2))
        sinLng == Sin(Round(deltaLngRad, 2))
        a == sinLat * sinLat
               + Mul(Cos(lat1Rad), Cos(lat1Rad)) * Mul(sinLng, sinLng)
        c == 2 * Atan2(Sqrt(a), Sqrt(One * One - a))
    IN  Round((earthRadiusMeters \div 1000) * c, One \div 1000)

\* geometryServiceImpl.CalculateDistance: the Haversine distance in meters
CalculateDistance(point1, point2) ==
    LET lat1Rad == degreesToRadians(point1.Lat)
        lat2Rad == degreesToRadians(point2.Lat)
        deltaLatRad == degreesToRadians(point2.Lat - point1.Lat)
        deltaLngRad == degreesToRadians(point2.Lng - point1.Lng)
        sinLat == Sin(Round(deltaLatRad, 2))
        sinLng == Sin(Round(deltaLngRad, 2))
        a == sinLat * sinLat
               + Mul(Cos(lat1Rad), Cos(lat2Rad)) * Mul(sinLng, sinLng)
        c == 2 * Atan2(Sqrt(a), Sqrt(One * One - a))
    IN  Round((earthRadiusMeters \div 1000) * c, One \div 1000)
\* the radius CreateReport's centroid check names (FR-006), in meters
centroidRadiusMeters == 200

\* geometryServiceImpl.ValidateCoordinatesNearCentroid: nil when some point is
\* within radiusMeters of the centroid of subDistrictCode
ValidateCoordinatesNearCentroid(table, points, subDistrictCode, radiusMeters, fails) ==
    LET got == GetCentroid(table, subDistrictCode, fails)
    IN  IF got.err # NoError
        THEN WrapSentinel(ErrSubDistrictNotFound, ErrorText(got.err))
        ELSE IF \E i \in 1..Len(points) :
                    CalculateDistance(points[i], got.centroid) <= radiusMeters
        THEN NoError
        ELSE WrapSentinel(ErrLocationNotInBoundary,
                <<"no coordinate falls within ", ToString(radiusMeters),
                  " meters of subdistrict ">> \o subDistrictCode
                    \o <<" centroid (", ToString(got.centroid.Lat), ", ",
                         ToString(got.centroid.Lng), ")">>)

\* errors.Is(e, sentinel)
ErrorsIs(e, sentinel) == e # NoError /\ e.err = sentinel

\* url.String()
URLString(u) == u.scheme \o <<"://">> \o u.host \o <<u.path>>

\* strings.Join(parts, sep), each part a sequence of strings
RECURSIVE Join(_, _)
Join(parts, sep) ==
    IF Len(parts) = 0 THEN <<>>
    ELSE IF Len(parts) = 1 THEN parts[1]
    ELSE parts[1] \o <<sep>> \o Join(Tail(parts), sep)

invalidPhotos_FirstOnly(photoResults) ==
    LET i == FirstIndex([k \in 1..Len(photoResults) |-> ~photoResults[k].Valid])
    IN  IF i = 0 THEN <<>>
        ELSE << URLString(photoResults[i].URL) \o <<": ">> \o photoResults[i].Error >>

\* the "<url>: <error>" lines of the invalid results, in order
RECURSIVE invalidPhotos(_)
invalidPhotos(photoResults) ==
    IF Len(photoResults) = 0 THEN <<>>
    ELSE (IF ~photoResults[1].Valid
          THEN << URLString(photoResults[1].URL) \o <<": ">> \o photoResults[1].Error >>
          ELSE <<>>)
         \o invalidPhotos(Tail(photoResults))

\* DamagedRoadRepository.Create: one transaction, committed or rolled back;
\* BeginTxx fails when ctx is done
RepoCreate(table, r, ctxDone, fails) ==
    IF ctxDone
    THEN [table |-> table, err |-> NewDatabaseError("begin transaction")]
    ELSE IF fails
    THEN [table |-> table, err |-> NewDatabaseError("insert damaged road")]
    ELSE [table |-> table \cup {r}, err |-> NoError]

\* uuid.New()
NewID == "report-2"

\* n copies of x
Rep(x, n) == [i \in 1..n |-> x]

TitleInputs ==
    { SampleTitle, <<"J", "l">>, <<" ", " ", " ">>, Rep("a", 100), Rep("a", 101) }
CodeInputs == { SampleCode, <<"9", "9", ".", "9", "9", ".", "9", "9", ".", "9", "9", "9", "9">>, <<"3", "5", "1", "0">> }
PathInputs ==
    { <<SamplePoint>>, <<>>,
      <<Point(Deg(6), Deg(141)), Point(Deg(-11), Deg(95))>>,
      <<SamplePoint, Point(Deg(6) + 1, Deg(120))>>,
      <<Point(Deg(-5), Deg(95) - 1), Point(Deg(-12), Deg(120))>>,
      Rep(SamplePoint, 100), Rep(SamplePoint, 101) }
PhotoInputs ==
    { <<SamplePhoto>>, <<>>, <<MetadataPhoto>>, <<SamplePhoto, PagePhoto>>,
      <<MetadataPhoto, SamplePhoto, PagePhoto>>,
      Rep(SamplePhoto, 10), Rep(SamplePhoto, 11) }
DescriptionInputs == { NilDescription, DescriptionPtr(Rep("d", 500)), DescriptionPtr(Rep("d", 501)) }
AuthorInputs == { "user-1", UuidNil }

CreateInputs ==
    [title : TitleInputs, subdistrictCode : CodeInputs, pathPoints : PathInputs,
     photoURLs : PhotoInputs, authorID : AuthorInputs, description : DescriptionInputs]

\* line 51: s.photoValidator.ValidateURLs(photoURLs) is called; the validator
\* is not given ctx
CreateCallValidator ==
    /\ cr.pc = "photos"
    /\ cr' = [cr EXCEPT !.pc = "probing",
                        !.log = Append(@, "photoValidator.ValidateURLs")]
    /\ UNCHANGED <<now, geoVars, entityVars, statusVars, photoVars, dels, hp, au, pw, rb>>

\* one round of the loop of ValidateURLs: results[i] = v.ValidateURL(urlStr),
\* which probes under context.Background()
CreateProbe ==
    /\ cr.pc = "probing"
    /\ Len(cr.photoResults) < Len(cr.in.photoURLs)
    /\ LET i == Len(cr.photoResults) + 1
       IN  cr' = [cr EXCEPT
                    !.log = Append(@, "photoValidator.ValidateURL"),
                    !.photoResults = Append(@, ValidateURL(SampleNet, cr.in.photoURLs[i]))]
    /\ UNCHANGED <<now, geoVars, entityVars, statusVars, photoVars, dels, hp, au, pw, rb>>

\* lines 52-64: ValidateURLs has returned; the invalid results are collected
CreateCheckPhotos ==
    /\ cr.pc = "probing"
    /\ Len(cr.photoResults) = Len(cr.in.photoURLs)
    /\ LET invalid == invalidPhotos(cr.photoResults)
       IN  cr' = IF Len(invalid) > 0
                 THEN [cr EXCEPT !.pc = "done",
                          !.err = WrapSentinel(ErrInvalidPhotoURLs, Join(invalid, "; "))]
                 ELSE [cr EXCEPT !.pc = "boundary"]
    /\ UNCHANGED <<now, geoVars, entityVars, statusVars, photoVars, dels, hp, au, pw, rb>>

\* line 67: s.geometrySvc.ValidateCoordinatesInBoundary(pathPoints)
CreateValidateBoundary ==
    /\ cr.pc = "boundary"
    /\ LET err == ValidateCoordinatesInBoundary(cr.in.pathPoints)
           called == [cr EXCEPT
                        !.log = Append(@, "geometrySvc.ValidateCoordinatesInBoundary")]
       IN  cr' = IF err # NoError
                 THEN [called EXCEPT !.pc = "done", !.err = err]
                 ELSE [called EXCEPT !.pc = "geometry"]
    /\ UNCHANGED <<now, geoVars, entityVars, statusVars, photoVars, dels, hp, au, pw, rb>>

\* line 85: entities.NewGeometryFromPoints(pathPoints); the centroid check of
\* lines 76-82 is commented out
CreateGeometry ==
    /\ cr.pc = "geometry"
    /\ LET g == NewGeometryFromPoints(cr.in.pathPoints)
           called == [cr EXCEPT !.log = Append(@, "entities.NewGeometryFromPoints")]
       IN  cr' = IF g.err # NoError
                 THEN [called EXCEPT !.pc = "done",
                          !.err = WrapError(<<"invalid path points: ">>, g.err)]
                 ELSE [called EXCEPT !.pc = "entity", !.geometry = g.geometry]
    /\ UNCHANGED <<now, geoVars, entityVars, statusVars, photoVars, dels, hp, au, pw, rb>>

\* line 94: entities.NewDamagedRoad(...)
CreateEntity ==
    /\ cr.pc = "entity"
    /\ LET r == NewDamagedRoad(cr.in.title, cr.in.subdistrictCode, cr.geometry,
                    cr.in.photoURLs, cr.in.authorID, cr.in.description, NewID, now)
           called == [cr EXCEPT !.log = Append(@, "entities.NewDamagedRoad")]
       IN  cr' = IF r.err # NoError
                 THEN [called EXCEPT !.pc = "done",
                          !.err = WrapError(<<"failed to create report: ">>, r.err)]
                 ELSE [called EXCEPT !.pc = "save", !.road = r.road]
    /\ UNCHANGED <<now, geoVars, entityVars, statusVars, photoVars, dels, hp, au, pw, rb>>

\* line 110: s.repo.Create(ctx, road), and the return
CreateSave(fails) ==
    /\ cr.pc = "save"
    /\ LET saved == RepoCreate(db, cr.road, cr.cancelled, fails)
           called == [cr EXCEPT !.log = Append(@, "repo.Create")]
       IN  /\ db' = saved.table
           /\ cr' = IF saved.err # NoError
                    THEN [called EXCEPT !.pc = "done", !.road = NilRoad,
                             !.err = WrapError(<<"failed to save report: ">>, saved.err)]
                    ELSE [called EXCEPT !.pc = "done"]
    /\ UNCHANGED <<now, geoVars, entityVars, calls, photoVars, dels, hp, au, pw, rb>>

\* validationErr.Error() of the *ValidationError errors.As finds in err: the
\* text of err from where the ValidationError's own text begins
ValidationErrorText(err) ==
    LET opens == {"validation error on field '", "validation error: "}
        text == ErrorText(err)
        i == CHOOSE k \in 1..Len(text) :
                /\ text[k] \in opens
                /\ \A j \in 1..(k - 1) : text[j] \notin opens
    IN  SubSeq(text, i, Len(text))

\* ReportHandler.CreateReport, lines 89-111: the status and body written for
\* what the service returned
CreateReportReply(err) ==
    IF err # NoError
    THEN IF AsValidationError(err)
         THEN [status |-> 400, error |-> "validation_error",
               message |-> ValidationErrorText(err)]
         ELSE [status |-> 500, error |-> "internal_error",
               message |-> <<"Failed to create report">>]
    ELSE [status |-> 201, error |-> "", message |-> <<>>]

\* ReportHandler.CreateReport answers the request with the service's result
CreateRespond ==
    /\ cr.pc = "done"
    /\ cr.reply = NoReply
    /\ cr' = [cr EXCEPT !.reply = CreateReportReply(cr.err)]
    /\ UNCHANGED <<now, geoVars, entityVars, statusVars, photoVars, dels, hp, au, pw, rb>>

InitCreate ==
    /\ now = 0
    /\ rb = NoDial
    /\ pw = NoPasswords
    /\ au = NoAuth
    /\ hp = NoPatch
    /\ dels = [c \in Requesters |-> IdleDelete]
    /\ gc = NoGeometryCall
    /\ road = NilRoad
    /\ ret = NoCall
    /\ ct = NoTransitionCall
    /\ db = {}
    /\ calls = [c \in Callers |-> IdleCall]
    /\ pv = NoProbe
    /\ vb = NoBatch
    /\ \E in \in CreateInputs : cr = [NoCreate EXCEPT !.pc = "photos", !.in = in]

NextCreate ==
    \/ CreateCallValidator
    \/ CreateProbe
    \/ CreateCheckPhotos
    \/ CreateValidateBoundary
    \/ CreateGeometry
    \/ CreateEntity
    \/ \E fails \in BOOLEAN : CreateSave(fails)
    \/ CreateRespond

SpecCreate == InitCreate /\ [][NextCreate]_vars

(***************************************************************************)
(* CreateReport under a context that its caller may cancel.                *)
(***************************************************************************)
CancelInputs ==
    [title : {SampleTitle, <<"J", "l">>}, subdistrictCode : {SampleCode},
     pathPoints : {<<SamplePoint>>},
     photoURLs : { <<>>, <<SamplePhoto>>, <<SamplePhoto, PagePhoto>>,
                   <<SamplePhoto, SamplePhoto, SamplePhoto>> },
     authorID : {"user-1"}, description : {NilDescription}]

InitCancel ==
    /\ now = 0
    /\ rb = NoDial
    /\ pw = NoPasswords
    /\ au = NoAuth
    /\ hp = NoPatch
    /\ dels = [c \in Requesters |-> IdleDelete]
    /\ gc = NoGeometryCall
    /\ road = NilRoad
    /\ ret = NoCall
    /\ ct = NoTransitionCall
    /\ db = {}
    /\ calls = [c \in Callers |-> IdleCall]
    /\ pv = NoProbe
    /\ vb = NoBatch
    /\ \E in \in CancelInputs : cr = [NoCreate EXCEPT !.pc = "photos", !.in = in]

\* the caller cancels ctx while the call runs
CancelContext ==
    /\ cr.pc \notin {"", "done"}
    /\ ~cr.cancelled
    /\ cr' = [cr EXCEPT !.cancelled = TRUE, !.log = Append(@, "ctx.Done")]
    /\ UNCHANGED <<now, geoVars, entityVars, statusVars, photoVars, dels, hp, au, pw, rb>>

NextCancel == NextCreate \/ CancelContext

SpecCancel == InitCancel /\ [][NextCancel]_vars

(***************************************************************************)
(* PATCH /api/v1/damaged-roads/:id/status: AuthMiddleware, then            *)
(* ReportHandler.UpdateReportStatus, which calls the report service.  A    *)
(* value kept in the gin context carries its Go type.                      *)
(***************************************************************************)
\* the access tokens the token generator accepts, by the user ID of their claims
AccessTokens == { [token |-> "jwt-of-" \o u, userID |-> u] : u \in Callers }

\* AuthServiceImpl.VerifyAccessToken; gives (userID string, err)
VerifyAccessToken(accessToken) ==
    IF \E a \in AccessTokens : a.token = accessToken
    THEN [userID |-> (CHOOSE a \in AccessTokens : a.token = accessToken).userID,
          err |-> NoError]
    ELSE [userID |-> "", err |-> Sentinel(ErrInvalidToken)]

\* c.Set(key, value)
Set(keys, key, value) ==
    [k \in DOMAIN keys \cup {key} |-> IF k = key THEN value ELSE keys[k]]

\* the strings uuid.Parse accepts
UUIDs == {StoredID, MissingID} \cup Callers \cup Users

\* ReportServiceImpl.UpdateReportStatus run from its call to its return;
\* gives (road, err) and the table it leaves
UpdateReportStatus(id, newStatus, t, findFails, saveFails) ==
    IF findFails
    THEN [road |-> NilRoad, table |-> db,
          err |-> WrapError(<<"failed to get report: ">>,
                      NewDatabaseError("find damaged road by id"))]
    ELSE IF RepoFindByID(id) = NilRoad
    THEN [road |-> NilRoad, table |-> db, err |-> Sentinel(ErrReportNotFound)]
    ELSE LET r == DamagedRoadUpdateStatus(RepoFindByID(id), newStatus, t)
         IN  IF r.err # NoError
             THEN [road |-> NilRoad, table |-> db, err |-> r.err]
             ELSE IF saveFails
             THEN [road |-> NilRoad, table |-> db,
                   err |-> WrapError(<<"failed to update status: ">>,
                               NewDatabaseError("update status"))]
             ELSE [road |-> r.road, err |-> NoError,
                   table |-> RepoUpdateStatus(db, id, newStatus, t)]

\* ReportHandler.UpdateReportStatus: the answer written, whether the service
\* was called, and the table left
HandleUpdateReportStatus(keys, idParam, body, t, findFails, saveFails) ==
    LET refuse(status, error, message) ==
            [reply |-> [status |-> status, error |-> error, message |-> message],
             served |-> FALSE, road |-> NilRoad, table |-> db]
    IN  IF "userID" \notin DOMAIN keys
        THEN refuse(401, "unauthorized", <<"User authentication required">>)
        ELSE IF keys["userID"].type # "uuid.UUID"
        THEN refuse(500, "internal_error", <<"Invalid user ID format">>)
        ELSE IF idParam \notin UUIDs
        THEN refuse(400, "invalid_id", <<"Invalid report ID format">>)
        ELSE IF body = ""
        THEN refuse(400, "validation_error", <<"Request validation failed">>)
        ELSE IF ~IsValid(body)
        THEN refuse(400, "invalid_status", <<"Invalid status value">>)
        ELSE LET got == UpdateReportStatus(idParam, body, t, findFails, saveFails)
                 answer(status, error, message) ==
                    [reply |-> [status |-> status, error |-> error, message |-> message],
                     served |-> TRUE, road |-> got.road, table |-> got.table]
             IN  IF got.err # NoError
                 THEN IF ErrorsIs(got.err, ErrReportNotFound)
                      THEN answer(404, "not_found", <<"Report not found">>)
                      ELSE IF AsValidationError(got.err)
                      THEN answer(400, "invalid_transition", ValidationErrorText(got.err))
                      ELSE answer(500, "internal_error", <<"Failed to update status">>)
                 ELSE answer(200, "", <<>>)

\* the Authorization headers tried, each as its parts between spaces
Headers ==
    { <<>>, <<"Bearer">>, <<"Basic", "jwt-of-user-2">>, <<"Bearer", "jwt-forged">> }
    \cup { <<"Bearer", a.token>> : a \in AccessTokens }

PatchInputs ==
    [header : Headers, idParam : {StoredID, MissingID, "report"},
     body : RequestedStatuses \cup {""}, findFails : BOOLEAN, saveFails : BOOLEAN]

InitPatch ==
    /\ now = 0
    /\ rb = NoDial
    /\ pw = NoPasswords
    /\ au = NoAuth
    /\ dels = [c \in Requesters |-> IdleDelete]
    /\ gc = NoGeometryCall
    /\ road = NilRoad
    /\ ret = NoCall
    /\ ct = NoTransitionCall
    /\ \E status \in {StatusSubmitted, StatusVerified, StatusArchived} :
          db = { [NewDamagedRoad(SampleTitle, SampleCode,
                    NewGeometryFromPoints(<<SamplePoint>>).geometry,
                    <<SamplePhoto>>, "user-1", NilDescription, StoredID, 0).road
                    EXCEPT !.Status = status] }
    /\ calls = [c \in Callers |-> IdleCall]
    /\ pv = NoProbe
    /\ vb = NoBatch
    /\ cr = NoCreate
    /\ \E in \in PatchInputs :
          hp = [NoPatch EXCEPT !.pc = "middleware", !.header = in.header,
                  !.idParam = in.idParam, !.body = in.body,
                  !.findFails = in.findFails, !.saveFails = in.saveFails,
                  !.stored = RepoFindByID(in.idParam)]

\* AuthMiddleware, lines 13-54
AuthMiddleware ==
    /\ hp.pc = "middleware"
    /\ LET abort(error, message) ==
              [hp EXCEPT !.pc = "done",
                 !.reply = [status |-> 401, error |-> error, message |-> message]]
           verified == VerifyAccessToken(hp.header[2])
       IN  hp' = IF hp.header = <<>>
                 THEN abort("missing_token", <<"Authorization header is required">>)
                 ELSE IF Len(hp.header) # 2 \/ hp.header[1] # "Bearer"
                 THEN abort("invalid_token_format",
                        <<"Authorization header must be in format: Bearer <token>">>)
                 ELSE IF verified.err # NoError
                 THEN abort("invalid_token", <<"Invalid or expired access token">>)
                 ELSE [hp EXCEPT !.pc = "handler",
                         !.keys = Set(@, "userID",
                                     [type |-> "string", value |-> verified.userID])]
    /\ UNCHANGED <<now, geoVars, entityVars, statusVars, photoVars, createVars, dels, au, pw, rb>>

\* ReportHandler.UpdateReportStatus, lines 254-331, after c.Next()
UpdateReportStatusHandler ==
    /\ hp.pc = "handler"
    /\ LET out == HandleUpdateReportStatus(hp.keys, hp.idParam, hp.body, now,
                      hp.findFails, hp.saveFails)
       IN  /\ hp' = [hp EXCEPT !.pc = "done", !.reply = out.reply,
                       !.served = out.served, !.road = out.road]
           /\ db' = out.table
    /\ UNCHANGED <<now, geoVars, entityVars, calls, photoVars, createVars, dels, au, pw, rb>>

NextPatch ==
    \/ AuthMiddleware
    \/ UpdateReportStatusHandler

SpecPatch == InitPatch /\ [][NextPatch]_vars

(***************************************************************************)
(* AuthServiceImpl.RefreshToken and Logout over RefreshTokenRepository.    *)
(* A RefreshToken call is two steps on the table, FindByTokenHash and      *)
(* Update; a Logout is one UPDATE statement.  Calls of different clients   *)
(* interleave.  au.revoked collects the hashes of the tokens that          *)
(* successful Logout calls revoked.                                        *)
(***************************************************************************)
\* JWTTokenGenerator.HashToken: base64 of the SHA-256 of the token
HashToken(token) == "sha256-" \o token

\* a row of refresh_tokens, an entities.RefreshToken; LastUsedAt is <<>> for nil
RefreshTokenRow(id, userID, token, expiresAt) ==
    [ID |-> id, UserID |-> userID, TokenHash |-> HashToken(token),
     ExpiresAt |-> expiresAt, Revoked |-> FALSE, LastUsedAt |-> <<>>]

\* RefreshToken.IsExpired and RefreshToken.IsValid at time t
RefreshTokenIsExpired(rt, t) == t > rt.ExpiresAt
RefreshTokenIsValid(rt, t) == ~RefreshTokenIsExpired(rt, t) /\ ~rt.Revoked

\* RefreshTokenRepository.FindByTokenHash: the row, or <<>> for sql.ErrNoRows
FindByTokenHash(table, tokenHash) ==
    IF \E r \in table : r.TokenHash = tokenHash
    THEN CHOOSE r \in table : r.TokenHash = tokenHash
    ELSE <<>>

\* RefreshTokenRepository.Update: SET revoked = $2, last_used_at = $3 WHERE id = $1
RefreshTokenUpdate(table, token) ==
    { IF r.ID = token.ID
      THEN [r EXCEPT !.Revoked = token.Revoked, !.LastUsedAt = token.LastUsedAt]
      ELSE r : r \in table }

\* RefreshTokenRepository.RevokeByUserID
RevokeByUserID(table, userID) ==
    { IF r.UserID = userID /\ ~r.Revoked THEN [r EXCEPT !.Revoked = TRUE] ELSE r :
        r \in table }

\* RefreshTokenRepository.RevokeByTokenHash
RevokeByTokenHash(table, tokenHash) ==
    { IF r.TokenHash = tokenHash THEN [r EXCEPT !.Revoked = TRUE] ELSE r : r \in table }

\* TokenGenerator.GenerateAccessToken
GenerateAccessToken(userID) == "jwt-of-" \o userID

\* RefreshToken, lines 101-126: HashToken, tokenRepo.FindByTokenHash, IsValid
RefreshFind(s, refreshToken, fails) ==
    /\ au.calls[s].pc = "idle"
    /\ LET tokenHash == HashToken(refreshToken)
           tokenEntity == FindByTokenHash(au.tokens, tokenHash)
           started == [IdleRefresh EXCEPT !.refreshToken = refreshToken,
                          !.afterLogout = (tokenHash \in au.revoked)]
       IN  au' = [au EXCEPT !.calls[s] =
              IF fails
              THEN [started EXCEPT !.pc = "done",
                      !.err = WrapError(<<"failed to find refresh token: ">>,
                                  DriverError)]
              ELSE IF tokenEntity = <<>>
              THEN [started EXCEPT !.pc = "done", !.err = Sentinel(ErrInvalidToken)]
              ELSE IF ~RefreshTokenIsValid(tokenEntity, now)
              THEN [started EXCEPT !.pc = "done",
                      !.err = IF RefreshTokenIsExpired(tokenEntity, now)
                              THEN Sentinel(ErrTokenExpired)
                              ELSE Sentinel(ErrInvalidToken)]
              ELSE [started EXCEPT !.pc = "update", !.tokenEntity = tokenEntity]]
    /\ UNCHANGED <<now, geoVars, entityVars, statusVars, photoVars, createVars, dels, hp, pw, rb>>

\* RefreshToken, lines 128-142: GenerateAccessToken, UpdateLastUsed and
\* tokenRepo.Update, whose failure is logged and ignored
RefreshUpdate(s, fails) ==
    /\ au.calls[s].pc = "update"
    /\ LET used == [au.calls[s].tokenEntity EXCEPT !.LastUsedAt = <<now>>]
       IN  au' = [au EXCEPT
                    !.tokens = IF fails THEN @ ELSE RefreshTokenUpdate(@, used),
                    !.calls[s] = [@ EXCEPT !.pc = "done", !.tokenEntity = used,
                                    !.accessToken = GenerateAccessToken(used.UserID)]]
    /\ UNCHANGED <<now, geoVars, entityVars, statusVars, photoVars, createVars, dels, hp, pw, rb>>

\* the client has its answer and may call again
RefreshReturn(s) ==
    /\ au.calls[s].pc = "done"
    /\ au' = [au EXCEPT !.calls[s] = IdleRefresh]
    /\ UNCHANGED <<now, geoVars, entityVars, statusVars, photoVars, createVars, dels, hp, pw, rb>>

\* Logout, lines 146-172: revoke the named token, or every token of the user
\* (a Logout whose statement fails returns an error and changes nothing)
Logout(userID, refreshToken) ==
    /\ userID \in UUIDs
    /\ LET after == IF refreshToken # ""
                    THEN RevokeByTokenHash(au.tokens, HashToken(refreshToken))
                    ELSE RevokeByUserID(au.tokens, userID)
       IN  /\ after # au.tokens
           /\ au' = [au EXCEPT !.tokens = after,
                       !.revoked = @ \cup { r.TokenHash : r \in after \ au.tokens }]
    /\ UNCHANGED <<now, geoVars, entityVars, statusVars, photoVars, createVars, dels, hp, pw, rb>>

\* the refresh tokens clients present: three stored ones and one never issued
RefreshTokens == {"rt-1a", "rt-1b", "rt-2", "rt-x"}

InitAuth ==
    /\ now = 0
    /\ rb = NoDial
    /\ pw = NoPasswords
    /\ hp = NoPatch
    /\ dels = [c \in Requesters |-> IdleDelete]
    /\ gc = NoGeometryCall
    /\ road = NilRoad
    /\ ret = NoCall
    /\ ct = NoTransitionCall
    /\ db = {}
    /\ calls = [c \in Callers |-> IdleCall]
    /\ pv = NoProbe
    /\ vb = NoBatch
    /\ cr = NoCreate
    /\ au = [NoAuth EXCEPT !.tokens =
                { RefreshTokenRow("token-1", "user-1", "rt-1a", 7),
                  RefreshTokenRow("token-2", "user-1", "rt-1b", 7),
                  RefreshTokenRow("token-3", "user-2", "rt-2", -1) }]

NextAuth ==
    \/ \E s \in Sessions, refreshToken \in RefreshTokens, fails \in BOOLEAN :
          RefreshFind(s, refreshToken, fails)
    \/ \E s \in Sessions, fails \in BOOLEAN : RefreshUpdate(s, fails)
    \/ \E s \in Sessions : RefreshReturn(s)
    \/ \E userID \in Users, refreshToken \in RefreshTokens \cup {""} :
          Logout(userID, refreshToken)

SpecAuth == InitAuth /\ [][NextAuth]_vars

(***************************************************************************)
(* PasswordServiceImpl.ResetPassword over PasswordResetTokenRepository     *)
(* and UserRepository.  A call is three steps on the database: the reads   *)
(* (FindByTokenHash, FindByID), the user's Update, and the token's Update, *)
(* whose failure the service logs and ignores.  Calls of different         *)
(* clients interleave.  pw.spent collects the hashes of the tokens with    *)
(* which a call has returned success.                                      *)
(***************************************************************************)
\* entities.ValidatePasswordStrength
ValidatePasswordStrength(password) ==
    /\ Len(password) >= 8
    /\ \E i \in 1..Len(password), k \in 1..Len(UpperCase) : password[i] = UpperCase[k]
    /\ \E i \in 1..Len(password), k \in 1..Len(LowerCase) : password[i] = LowerCase[k]
    /\ \E i \in 1..Len(password) : password[i] \in Digits

\* PasswordHasher.Hash
Hash(password) == <<"bcrypt$">> \o password

\* a row of password_reset_tokens, an entities.PasswordResetToken
PasswordResetTokenRow(id, userID, token, expiresAt) ==
    [ID |-> id, UserID |-> userID, TokenHash |-> HashToken(token),
     ExpiresAt |-> expiresAt, Used |-> FALSE]

\* PasswordResetToken.IsExpired and PasswordResetToken.IsValid at time t
PasswordResetTokenIsExpired(prt, t) == t > prt.ExpiresAt
PasswordResetTokenIsValid(prt, t) == ~PasswordResetTokenIsExpired(prt, t) /\ ~prt.Used

\* PasswordResetToken.MarkAsUsed
MarkAsUsed(prt) == [prt EXCEPT !.Used = TRUE]

\* PasswordResetTokenRepository.Update: SET used = $2 WHERE id = $1
PasswordResetTokenUpdate(table, token) ==
    { IF r.ID = token.ID THEN [r EXCEPT !.Used = token.Used] ELSE r : r \in table }

\* ResetPassword, lines 99-134: ValidatePasswordStrength, HashToken,
\* FindByTokenHash, IsValid, userRepo.FindByID
ResetFind(s, token, newPassword, fails) ==
    /\ pw.calls[s].pc = "idle"
    /\ LET tokenHash == HashToken(token)
           tokenEntity == FindByTokenHash(pw.tokens, tokenHash)
           started == [IdleReset EXCEPT !.token = token, !.newPassword = newPassword,
                          !.afterSuccess = (tokenHash \in pw.spent)]
           return(err) == [started EXCEPT !.pc = "done", !.err = err]
       IN  pw' = [pw EXCEPT !.calls[s] =
              IF ~ValidatePasswordStrength(newPassword)
              THEN return(Sentinel(ErrWeakPassword))
              ELSE IF fails
              THEN return(WrapError(<<"failed to find reset token: ">>, DriverError))
              ELSE IF tokenEntity = <<>>
              THEN return(Sentinel(ErrInvalidToken))
              ELSE IF ~PasswordResetTokenIsValid(tokenEntity, now)
              THEN return(IF PasswordResetTokenIsExpired(tokenEntity, now)
                          THEN Sentinel(ErrTokenExpired)
                          ELSE Sentinel(ErrInvalidToken))
              ELSE IF tokenEntity.UserID \notin DOMAIN pw.users
              THEN return(Sentinel(ErrUserNotFound))
              ELSE [started EXCEPT !.pc = "password", !.tokenEntity = tokenEntity]]
    /\ UNCHANGED <<now, geoVars, entityVars, statusVars, photoVars, createVars, dels, hp, au, rb>>

\* ResetPassword, lines 136-147: passwordHasher.Hash, user.UpdatePassword,
\* userRepo.Update
ResetUpdatePassword(s, fails) ==
    /\ pw.calls[s].pc = "password"
    /\ pw' = IF fails
             THEN [pw EXCEPT !.calls[s] =
                     [@ EXCEPT !.pc = "done",
                        !.err = WrapError(<<"failed to update password: ">>,
                                    DriverError)]]
             ELSE [pw EXCEPT
                     !.users[pw.calls[s].tokenEntity.UserID] =
                         Hash(pw.calls[s].newPassword),
                     !.calls[s] = [@ EXCEPT !.pc = "token", !.changed = TRUE]]
    /\ UNCHANGED <<now, geoVars, entityVars, statusVars, photoVars, createVars, dels, hp, au, rb>>

\* ResetPassword, lines 149-167: tokenEntity.MarkAsUsed,
\* passwordResetTokenRepo.Update, and the return of nil
ResetMarkUsed(s, fails) ==
    /\ pw.calls[s].pc = "token"
    /\ LET used == MarkAsUsed(pw.calls[s].tokenEntity)
       IN  pw' = [pw EXCEPT
                    !.tokens = IF fails THEN @ ELSE PasswordResetTokenUpdate(@, used),
                    !.spent = @ \cup {used.TokenHash},
                    !.calls[s] = [@ EXCEPT !.pc = "done", !.tokenEntity = used]]
    /\ UNCHANGED <<now, geoVars, entityVars, statusVars, photoVars, createVars, dels, hp, au, rb>>

\* the client has its answer and may call again
ResetReturn(s) ==
    /\ pw.calls[s].pc = "done"
    /\ pw' = [pw EXCEPT !.calls[s] = IdleReset]
    /\ UNCHANGED <<now, geoVars, entityVars, statusVars, photoVars, createVars, dels, hp, au, rb>>

\* the reset tokens and the new passwords clients send
ResetTokens == {"prt-1", "prt-old", "prt-x"}
NewPasswords == {<<"J", "a", "l", "a", "n", "2", "0", "2", "5", "a">>, <<"R", "u", "s", "a", "k", "2", "0", "2", "5", "b">>, <<"j", "a", "l", "a", "n">>}

InitReset ==
    /\ now = 0
    /\ rb = NoDial
    /\ au = NoAuth
    /\ hp = NoPatch
    /\ dels = [c \in Requesters |-> IdleDelete]
    /\ gc = NoGeometryCall
    /\ road = NilRoad
    /\ ret = NoCall
    /\ ct = NoTransitionCall
    /\ db = {}
    /\ calls = [c \in Callers |-> IdleCall]
    /\ pv = NoProbe
    /\ vb = NoBatch
    /\ cr = NoCreate
    /\ pw = [NoPasswords EXCEPT
               !.tokens = { PasswordResetTokenRow("reset-1", "user-1", "prt-1", 1),
                            PasswordResetTokenRow("reset-2", "user-2", "prt-old", -1) },
               !.users = [u \in Users |-> Hash(<<"L", "a", "m", "a", "2", "0", "2", "4", "x">>)]]

NextReset ==
    \/ \E s \in Sessions, token \in ResetTokens, newPassword \in NewPasswords,
          fails \in BOOLEAN : ResetFind(s, token, newPassword, fails)
    \/ \E s \in Sessions, fails \in BOOLEAN : ResetUpdatePassword(s, fails)
    \/ \E s \in Sessions, fails \in BOOLEAN : ResetMarkUsed(s, fails)
    \/ \E s \in Sessions : ResetReturn(s)

SpecReset == InitReset /\ [][NextReset]_vars

(***************************************************************************)
(* The geometry service and the Geometry value object alone.               *)
(***************************************************************************)
\* how many points a short path holds
MaxPath == 2

\* points on and just beyond each bound, and one inside
PointInputs ==
    { Point(lat, lng) :
        lat \in {Deg(-11) - 1, Deg(-11), Deg(6), Deg(6) + 1},
        lng \in {Deg(95) - 1, Deg(95), Deg(141), Deg(141) + 1} }
    \cup {SamplePoint}

RECURSIVE PathsOf(_)
PathsOf(n) ==
    IF n = 0 THEN {<<>>}
    ELSE { <<q>> \o path : q \in PointInputs, path \in PathsOf(n - 1) }

\* the short paths, and paths of 100 and of 101 different points
PathsTried ==
    UNION { PathsOf(n) : n \in 0..MaxPath }
    \cup { [i \in 1..100 |-> Point(Deg(-11) + i, Deg(95) + 2 * i)],
           [i \in 1..101 |-> Point(Deg(-11) + i, Deg(95) + 2 * i)] }

\* the region codes of the dataset, with their centroids
DatasetCodes == { SampleCode, <<"3", "5", ".", "1", "0", ".", "0", "2", ".", "2", "0", "0", "6">>, <<"3", "1", ".", "7", "1", ".", "0", "1", ".", "1", "0", "0", "1">> }
Centroid(code) ==
    IF code = SampleCode THEN SamplePoint
    ELSE IF code = <<"3", "5", ".", "1", "0", ".", "0", "2", ".", "2", "0", "0", "6">> THEN Point(-72600, 1127600)
    ELSE Point(-61754, 1068272)
Datasets == { [code \in codes |-> Centroid(code)] : codes \in SUBSET DatasetCodes }

GeometryInputs ==
    { [points |-> path, code |-> SampleCode,
       table |-> [code \in DatasetCodes |-> Centroid(code)], fails |-> FALSE] :
        path \in PathsTried }
    \cup
    { [points |-> <<SamplePoint>>, code |-> code, table |-> table, fails |-> fails] :
        code \in DatasetCodes \cup {<<"9", "9", ".", "9", "9", ".", "9", "9", ".", "9", "9", "9", "9">>}, table \in Datasets,
        fails \in BOOLEAN }

InitGeometry ==
    /\ now = 0
    /\ rb = NoDial
    /\ pw = NoPasswords
    /\ au = NoAuth
    /\ hp = NoPatch
    /\ dels = [c \in Requesters |-> IdleDelete]
    /\ road = NilRoad
    /\ ret = NoCall
    /\ ct = NoTransitionCall
    /\ db = {}
    /\ calls = [c \in Callers |-> IdleCall]
    /\ pv = NoProbe
    /\ vb = NoBatch
    /\ cr = NoCreate
    /\ \E in \in GeometryInputs : gc = [NoGeometryCall EXCEPT !.in = in]

\* s.ValidateCoordinatesInBoundary(points)
ValidateCoordinatesInBoundaryCall ==
    /\ gc.op = ""
    /\ gc' = [gc EXCEPT !.op = "ValidateCoordinatesInBoundary",
                        !.err = ValidateCoordinatesInBoundary(gc.in.points)]
    /\ UNCHANGED <<now, entityVars, statusVars, photoVars, createVars, dels, hp, au, pw, rb>>

\* entities.NewGeometryFromPoints(points), and ToPoints() of the geometry made
NewGeometryFromPointsCall ==
    /\ gc.op = ""
    /\ LET made == NewGeometryFromPoints(gc.in.points)
       IN  gc' = [gc EXCEPT !.op = "NewGeometryFromPoints",
                           !.err = made.err,
                           !.geometry = made.geometry,
                           !.points = ToPoints(made.geometry)]
    /\ UNCHANGED <<now, entityVars, statusVars, photoVars, createVars, dels, hp, au, pw, rb>>

\* s.GetSubDistrictCentroid(subDistrictCode)
GetSubDistrictCentroidCall ==
    /\ gc.op = ""
    /\ LET got == GetSubDistrictCentroid(gc.in.table, gc.in.code, gc.in.fails)
       IN  gc' = [gc EXCEPT !.op = "GetSubDistrictCentroid",
                           !.err = got.err, !.centroid = got.centroid]
    /\ UNCHANGED <<now, entityVars, statusVars, photoVars, createVars, dels, hp, au, pw, rb>>

\* s.CalculateDistance(point1, point2) on a path of two points
CalculateDistanceCall ==
    /\ gc.op = ""
    /\ Len(gc.in.points) = 2
    /\ gc' = [gc EXCEPT !.op = "CalculateDistance",
                        !.distance = CalculateDistance(gc.in.points[1], gc.in.points[2])]
    /\ UNCHANGED <<now, entityVars, statusVars, photoVars, createVars, dels, hp, au, pw, rb>>

\* s.ValidateCoordinatesNearCentroid(points, subDistrictCode, 200.0)
ValidateCoordinatesNearCentroidCall ==
    /\ gc.op = ""
    /\ gc' = [gc EXCEPT !.op = "ValidateCoordinatesNearCentroid",
                        !.err = ValidateCoordinatesNearCentroid(gc.in.table,
                                    gc.in.points, gc.in.code, centroidRadiusMeters,
                                    gc.in.fails)]
    /\ UNCHANGED <<now, entityVars, statusVars, photoVars, createVars, dels, hp, au, pw, rb>>

NextGeometry ==
    \/ ValidateCoordinatesInBoundaryCall
    \/ NewGeometryFromPointsCall
    \/ GetSubDistrictCentroidCall
    \/ CalculateDistanceCall
    \/ ValidateCoordinatesNearCentroidCall

SpecGeometry == InitGeometry /\ [][NextGeometry]_vars

(***************************************************************************)
(* The photo validator on a batch: one ValidateURLs call on each batch.    *)
(***************************************************************************)
InitBatch ==
    /\ now = 0
    /\ rb = NoDial
    /\ pw = NoPasswords
    /\ au = NoAuth
    /\ hp = NoPatch
    /\ dels = [c \in Requesters |-> IdleDelete]
    /\ gc = NoGeometryCall
    /\ road = NilRoad
    /\ ret = NoCall
    /\ ct = NoTransitionCall
    /\ db = {}
    /\ calls = [c \in Callers |-> IdleCall]
    /\ pv = NoProbe
    /\ cr = NoCreate
    /\ \E urls \in BatchInputs : vb = [NoBatch EXCEPT !.net = BatchNet, !.urls = urls]

\* v.ValidateURLs(urls)
ValidateURLsCall ==
    /\ vb.op = ""
    /\ vb' = [vb EXCEPT !.op = "ValidateURLs", !.results = ValidateURLs(vb.net, vb.urls)]
    /\ UNCHANGED <<now, geoVars, entityVars, statusVars, createVars, pv, dels, hp, au, pw, rb>>

NextBatch == ValidateURLsCall

SpecBatch == InitBatch /\ [][NextBatch]_vars

(***************************************************************************)
(* The photo validator alone: one ValidateURL call on each probe input.    *)
(***************************************************************************)
InitPhoto ==
    /\ now = 0
    /\ rb = NoDial
    /\ pw = NoPasswords
    /\ au = NoAuth
    /\ hp = NoPatch
    /\ dels = [c \in Requesters |-> IdleDelete]
    /\ gc = NoGeometryCall
    /\ road = NilRoad
    /\ ret = NoCall
    /\ ct = NoTransitionCall
    /\ db = {}
    /\ calls = [c \in Callers |-> IdleCall]
    /\ \E in \in ProbeInputs :
          pv = [op |-> "", url |-> in.url, net |-> in.net, res |-> NoResult]
    /\ vb = NoBatch
    /\ cr = NoCreate

\* v.ValidateURL(urlStr)
ValidateURLCall ==
    /\ pv.op = ""
    /\ pv' = [pv EXCEPT !.op = "ValidateURL", !.res = ValidateURL(pv.net, pv.url)]
    /\ UNCHANGED <<now, geoVars, entityVars, statusVars, createVars, vb, dels, hp, au, pw, rb>>

NextPhoto == ValidateURLCall

SpecPhoto == InitPhoto /\ [][NextPhoto]_vars

(***************************************************************************)
(* The entity alone: a report made by NewDamagedRoad, then any calls of    *)
(* DamagedRoad.UpdateStatus and Status.CanTransitionTo, while time passes. *)
(***************************************************************************)
InitEntity ==
    /\ now = 0
    /\ rb = NoDial
    /\ pw = NoPasswords
    /\ au = NoAuth
    /\ hp = NoPatch
    /\ dels = [c \in Requesters |-> IdleDelete]
    /\ gc = NoGeometryCall
    /\ \E author \in Users :
          road = NewDamagedRoad(SampleTitle, SampleCode,
                    NewGeometryFromPoints(<<SamplePoint>>).geometry,
                    <<SamplePhoto>>, author, NilDescription, StoredID, 0).road
    /\ ret = NoCall
    /\ ct = NoTransitionCall
    /\ db = {}
    /\ calls = [c \in Callers |-> IdleCall]
    /\ pv = NoProbe
    /\ vb = NoBatch
    /\ cr = NoCreate

EntityTick == Tick /\ UNCHANGED <<entityVars, geoVars, statusVars, photoVars, createVars, dels, hp, au, pw, rb>>

\* road.UpdateStatus(newStatus)
UpdateStatusCall(newStatus) ==
    LET r == DamagedRoadUpdateStatus(road, newStatus, now)
    IN  /\ road' = r.road
        /\ ret' = [op |-> "UpdateStatus", newStatus |-> newStatus,
                   err |-> r.err, before |-> road]
        /\ UNCHANGED <<now, geoVars, ct, statusVars, photoVars, createVars, dels, hp, au, pw, rb>>

\* s.CanTransitionTo(newStatus)
CanTransitionToCall(s, newStatus) ==
    /\ ct' = [called |-> TRUE, s |-> s, newStatus |-> newStatus,
              result |-> CanTransitionTo(s, newStatus)]
    /\ UNCHANGED <<now, geoVars, road, ret, statusVars, photoVars, createVars, dels, hp, au, pw, rb>>

NextEntity ==
    \/ EntityTick
    \/ \E newStatus \in StatusInputs : UpdateStatusCall(newStatus)

SpecEntity == InitEntity /\ [][NextEntity]_vars

\* the pure function alone, applied to every pair of strings of StatusInputs
NextTransition == \E s, newStatus \in StatusInputs : CanTransitionToCall(s, newStatus)

SpecTransition == InitEntity /\ [][NextTransition]_vars

(***************************************************************************)
(* Properties of the status machine.                                       *)
(***************************************************************************)
\* the order in which spec.md section 4.4 declares the six states
DeclaredOrder ==
    <<"submitted", "under_verification", "verified", "pending_resolved",
      "resolved", "archived">>

Declared == { DeclaredOrder[i] : i \in 1..Len(DeclaredOrder) }

Position(s) == CHOOSE i \in 1..Len(DeclaredOrder) : DeclaredOrder[i] = s

\* to is the immediate successor of from in the declared order
ImmediateSuccessor(from, to) ==
    /\ from \in Declared
    /\ to \in Declared
    /\ Position(to) = Position(from) + 1

Names(msg, s) == \E i \in 1..Len(msg) : msg[i] = s

\* C4: whenever UpdateStatus returns an error the report's Status and UpdatedAt
\* are what they were before the call; for a recognized target that is not the
\* immediate successor the error message names the current and the attempted
\* status.
C4_FailureLeavesReportUnchanged ==
    (ret.op = "UpdateStatus" /\ ret.err # NoError) =>
        /\ road.Status = ret.before.Status
        /\ road.UpdatedAt = ret.before.UpdatedAt
        /\ road = ret.before
        /\ (ret.newStatus \in Declared) =>
              /\ ~ImmediateSuccessor(ret.before.Status, ret.newStatus)
              /\ Names(ErrorText(ret.err), ret.before.Status)
              /\ Names(ErrorText(ret.err), ret.newStatus)

\* C4 witness: a skip-ahead target was rejected some time after the last update
C4_Witness ==
    /\ ret.op = "UpdateStatus"
    /\ ret.err # NoError
    /\ ret.before.Status = "verified"
    /\ ret.newStatus = "resolved"
    /\ now > ret.before.UpdatedAt

(***************************************************************************)
(* Properties of the report service's UpdateReportStatus.                  *)
(***************************************************************************)
\* calls a and b ran concurrently: one did its FindByID while the other was
\* between its own FindByID and its return
Concurrent(a, b) == b \in calls[a].during \/ a \in calls[b].during

\* the call of c has returned (road, nil)
Succeeded(c) == calls[c].pc = "done" /\ calls[c].err = NoError

\* C3: when two UpdateReportStatus calls run concurrently on the same report,
\* both having read the same current status and both requesting its successor,
\* at most one of them returns success.
C3_AtMostOneSucceeds ==
    \A a, b \in Callers :
        ( /\ a # b
          /\ Concurrent(a, b)
          /\ calls[a].pc = "done" /\ calls[b].pc = "done"
          /\ calls[a].id = calls[b].id
          /\ calls[a].found # NilRoad /\ calls[b].found # NilRoad
          /\ calls[a].found.Status = calls[b].found.Status
          /\ calls[a].newStatus = calls[b].newStatus
          /\ ImmediateSuccessor(calls[a].found.Status, calls[a].newStatus) )
        => ~(Succeeded(a) /\ Succeeded(b))


(***************************************************************************)
(* The photo validator's SSRF protection.                                  *)
(***************************************************************************)
\* the blocked ranges as published: an IPv4 address a.b.c.d, or the sixteen
\* bytes of an IPv6 address
InBlockedRange(ip) ==
    IF Len(ip) = 4
    THEN \/ ip[1] = 10
         \/ ip[1] = 172 /\ ip[2] \in 16..31
         \/ ip[1] = 192 /\ ip[2] = 168
         \/ ip[1] = 169 /\ ip[2] = 254
         \/ ip[1] = 127
         \/ ip[1] = 0
         \/ ip[1] = 100 /\ ip[2] \in 64..127
    ELSE \/ ip = IPv6(0, 0, 0, 1)
         \/ ip[1] = 254 /\ ip[2] \in 128..191
         \/ ip[1] \in {252, 253}
         \/ ip[1] = 255
         \/ SubSeq(ip, 1, 12) = v4InV6Prefix

\* the positions of the HEAD requests among the events of the call
RequestsAt(events) == { i \in 1..Len(events) : events[i].ev = "request" }
Requested(events) == Cardinality(RequestsAt(events))
\* the position of the k-th request
RequestAt(events, k) ==
    CHOOSE i \in RequestsAt(events) :
        Cardinality({ j \in RequestsAt(events) : j <= i }) = k

Probed == pv.op = "ValidateURL"
ProbeScript == pv.net.web[pv.url]

\* C8: when at least one address the host name resolves to lies in a blocked
\* range (the IPv4 ranges and the listed IPv6 ranges), ValidateURL reports the
\* URL invalid and sends no HTTP request.
C8_BlockedAddressRejectedUnprobed ==
    (/\ Probed
     /\ pv.url.parses
     /\ \E ip \in LookupIP(pv.net, pv.url.host) : InBlockedRange(ip))
    => (~pv.res.Valid /\ Requested(pv.res.events) = 0)

\* C9: every request the client sends is to a URL that has just passed
\* validateURL, redirect targets included; a redirect whose target fails
\* validateURL is not followed, and the URL is reported invalid.
C9_RedirectTargetsChecked ==
    Probed =>
        LET events == pv.res.events
            n == Requested(events)
        IN  /\ \A i \in RequestsAt(events) :
                  /\ i > 1
                  /\ events[i - 1] = Event("lookup", events[i].url)
                  /\ validateURL(pv.net, events[i].url) = NoError
            /\ \A k \in 1..n :
                  ProbeScript[k].kind = "redirect" =>
                      /\ k < n => events[RequestAt(events, k + 1)].url = ProbeScript[k].to
                      /\ validateURL(pv.net, ProbeScript[k].to) # NoError =>
                            /\ n = k
                            /\ ~pv.res.Valid

\* a safe redirect was followed, and the next redirect, to the metadata
\* address, was refused
C9_Witness ==
    /\ Probed
    /\ Len(ProbeScript) >= 3
    /\ ProbeScript[1] = Redirect(URL(<<"h", "t", "t", "p", "s">>, HostCdn, "/a.jpg"))
    /\ ProbeScript[2] = Redirect(URL(<<"h", "t", "t", "p">>, HostMetadata, "/latest/meta-data"))
    /\ Requested(pv.res.events) = 2
    /\ ~pv.res.Valid

\* the script is r redirects to safe targets, then a 2xx image response
SafeChain(script) ==
    /\ \A k \in 1..(Len(script) - 1) :
          /\ script[k].kind = "redirect"
          /\ validateURL(pv.net, script[k].to) = NoError
    /\ script[Len(script)].kind = "final"
    /\ script[Len(script)].status \in 200..299
    /\ isValidImageContentType(script[Len(script)].ctype)

\* C10: a chain of at most 3 safe redirects that ends in a 2xx image response
\* is reported valid; a chain that needs a fourth redirect is reported invalid.
C10_ThreeRedirectsFollowed ==
    (/\ Probed
     /\ validateURL(pv.net, pv.url) = NoError
     /\ SafeChain(ProbeScript))
    => (pv.res.Valid <=> Len(ProbeScript) - 1 <= 3)

(***************************************************************************)
(* The submission pipeline.                                                *)
(***************************************************************************)
\* what a submission must satisfy, stage by stage
FieldsValid(in) ==
    /\ TitleValidate(in.title) = NoError
    /\ SubDistrictCodeValidate(in.subdistrictCode) = NoError
    /\ in.description.nil \/ DescriptionValidate(in.description.s) = NoError
    /\ in.authorID # UuidNil
PathCountValid(in) == Len(in.pathPoints) \in 1..100
BoundaryValid(in) ==
    \A k \in 1..Len(in.pathPoints) :
        /\ in.pathPoints[k].Lat \in Deg(-11)..Deg(6)
        /\ in.pathPoints[k].Lng \in Deg(95)..Deg(141)
PhotoCountValid(in) == Len(in.photoURLs) \in 1..10
PhotoURLsValid(in) ==
    \A k \in 1..Len(in.photoURLs) : ValidateURL(SampleNet, in.photoURLs[k]).Valid
AllStagesValid(in) ==
    /\ FieldsValid(in)
    /\ PathCountValid(in)
    /\ BoundaryValid(in)
    /\ PhotoCountValid(in)
    /\ PhotoURLsValid(in)

\* where the call called the collaborator
CalledAt(name) == { i \in 1..Len(cr.log) : cr.log[i] = name }
Creating == cr.pc # ""

\* C5: repo.Create is called at most once and only for a submission that
\* passes every validation stage; nothing is persisted otherwise; a call on a
\* submission that fails a stage returns a nil report and an error.
C5_AllOrNothing ==
    Creating =>
        /\ Cardinality(CalledAt("repo.Create")) <= 1
        /\ CalledAt("repo.Create") # {} => AllStagesValid(cr.in)
        /\ db # {} => CalledAt("repo.Create") # {}
        /\ (cr.pc = "done" /\ ~AllStagesValid(cr.in)) =>
              /\ CalledAt("repo.Create") = {}
              /\ cr.road = NilRoad
              /\ cr.err # NoError
              /\ db = {}

\* a submission whose photos, boundary and path passed and whose title did
\* not: the call has returned without repo.Create
C5_Witness ==
    /\ cr.pc = "done"
    /\ PhotoURLsValid(cr.in) /\ BoundaryValid(cr.in) /\ PathCountValid(cr.in)
    /\ TitleValidate(cr.in.title) # NoError
    /\ CalledAt("entities.NewDamagedRoad") # {}
    /\ CalledAt("repo.Create") = {}
    /\ cr.road = NilRoad /\ cr.err # NoError /\ db = {}

\* C6: the photo validator is called only after field validation and boundary
\* validation have succeeded.
C6_PhotoValidationLast ==
    \A i \in CalledAt("photoValidator.ValidateURLs") :
        /\ FieldsValid(cr.in)
        /\ BoundaryValid(cr.in)
        /\ \E j \in CalledAt("geometrySvc.ValidateCoordinatesInBoundary") : j < i

\* C7: a submission whose region code is well-formed and absent from the
\* boundary dataset is rejected with ErrSubDistrictNotFound and not persisted.
C7_UnknownRegionRejected ==
    (/\ cr.pc = "done"
     /\ subdistrictCodeRegex(cr.in.subdistrictCode)
     /\ cr.in.subdistrictCode \notin BoundaryCodes)
    => (/\ cr.err.err = ErrSubDistrictNotFound
        /\ cr.road = NilRoad
        /\ db = {})

(***************************************************************************)
(* The order of the per-URL checks.                                        *)
(***************************************************************************)
\* s spells word in any mix of upper and lower case
Spells(s, word, WORD) ==
    /\ Len(s) = Len(word)
    /\ \A i \in 1..Len(s) : s[i] \in {word[i], WORD[i]}

SchemeAccepted(scheme) ==
    \/ Spells(scheme, <<"h", "t", "t", "p">>, <<"H", "T", "T", "P">>)
    \/ Spells(scheme, <<"h", "t", "t", "p", "s">>, <<"H", "T", "T", "P", "S">>)

\* C11: the checks of a URL run in the order parse, scheme, hostname and
\* localhost alias, DNS resolution, private-range check, HTTP probe, and stop
\* at the first failure; a URL whose scheme is not http or https in any case
\* is rejected at the scheme check, with no DNS resolution and no HTTP request.
C11_ChecksInOrder ==
    Probed =>
        LET events == pv.res.events
        IN  /\ (pv.url.parses /\ ~SchemeAccepted(pv.url.scheme)) =>
                  /\ ~pv.res.Valid
                  /\ events = <<>>
                  /\ pv.res.Error = <<"invalid protocol (only HTTP and HTTPS allowed)">>
            /\ (~pv.url.parses \/ pv.url.host = <<>> \/ isLocalhost(pv.url.host)) =>
                  (~pv.res.Valid /\ events = <<>>)
            /\ events # <<>> => events[1] = Event("lookup", pv.url)
            /\ \A i \in 2..Len(events) :
                  events[i].ev = "lookup" => events[i - 1].ev = "request"
            /\ Requested(events) > 0 =>
                  \A ip \in LookupIP(pv.net, pv.url.host) : ~isPrivateOrReservedIP(ip)
            /\ (\/ LookupIP(pv.net, pv.url.host) = {}
                \/ \E ip \in LookupIP(pv.net, pv.url.host) : isPrivateOrReservedIP(ip)) =>
                  (~pv.res.Valid /\ Requested(events) = 0)

\* an ftp URL of a host with a public address was rejected unresolved
C11_Witness ==
    /\ Probed
    /\ pv.url = URL(<<"f", "t", "p">>, HostPhoto, "/photo.jpg")
    /\ LookupIP(pv.net, HostPhoto) = {PublicV4}
    /\ ~pv.res.Valid
    /\ pv.res.events = <<>>

(***************************************************************************)
(* The content type of a probed photo.                                     *)
(***************************************************************************)
AcceptedTypes ==
    { <<<<"i", "m", "a", "g", "e", "/", "j", "p", "e", "g">>, <<"I", "M", "A", "G", "E", "/", "J", "P", "E", "G">>>>, <<<<"i", "m", "a", "g", "e", "/", "j", "p", "g">>, <<"I", "M", "A", "G", "E", "/", "J", "P", "G">>>>,
      <<<<"i", "m", "a", "g", "e", "/", "p", "n", "g">>, <<"I", "M", "A", "G", "E", "/", "P", "N", "G">>>>, <<<<"i", "m", "a", "g", "e", "/", "w", "e", "b", "p">>, <<"I", "M", "A", "G", "E", "/", "W", "E", "B", "P">>>> }

\* the part of the header before its first ";" is an accepted type, in any
\* case, with white space around it
DeclaresImage(ctype) ==
    LET n == IF \E i \in 1..Len(ctype) : ctype[i] = ";"
             THEN (CHOOSE i \in 1..Len(ctype) :
                      ctype[i] = ";" /\ \A j \in 1..(i - 1) : ctype[j] # ";") - 1
             ELSE Len(ctype)
    IN  \E t \in AcceptedTypes : \E a \in 0..n :
            /\ a + Len(t[1]) <= n
            /\ \A k \in 1..a : ctype[k] \in {" ", "\t", "\r", "\n"}
            /\ Spells(SubSeq(ctype, a + 1, a + Len(t[1])), t[1], t[2])
            /\ \A k \in (a + Len(t[1]) + 1)..n : ctype[k] \in {" ", "\t", "\r", "\n"}

\* the probe was of a safe URL and the server answered at once with a 2xx
AnsweredOK ==
    /\ Probed
    /\ validateURL(pv.net, pv.url) = NoError
    /\ Len(ProbeScript) = 1
    /\ ProbeScript[1].kind = "final"
    /\ ProbeScript[1].status \in 200..299

C13_BatchVerdictsIndependent ==
    vb.op = "ValidateURLs" =>
        /\ Len(vb.results) = Len(vb.urls)
        /\ \A i \in 1..Len(vb.urls) :
              /\ vb.results[i].URL = vb.urls[i]
              /\ vb.results[i] = ValidateURL(vb.net, vb.urls[i])

\* of three URLs the second failed and the others passed
C13_Witness ==
    /\ vb.op = "ValidateURLs"
    /\ vb.urls = <<SamplePhoto, MetadataPhoto, SamplePhoto>>
    /\ vb.results[1].Valid /\ ~vb.results[2].Valid /\ vb.results[3].Valid

(***************************************************************************)
(* The photos of a submission.                                             *)
(***************************************************************************)
\* part occurs in whole as a run of consecutive elements
IsInfix(part, whole) ==
    \E i \in 1..(Len(whole) - Len(part) + 1) :
        SubSeq(whole, i, i + Len(part) - 1) = part

\* the photo stage is over
PhotosChecked == Creating /\ cr.pc \notin {"photos", "probing"}

\* C14: when some photo URL of a submission is invalid, CreateReport rejects
\* the submission, its error holds every failing URL with that URL's own
\* reason, and no report is created.
C14_EveryInvalidPhotoReported ==
    (PhotosChecked /\ ~PhotoURLsValid(cr.in)) =>
        /\ cr.pc = "done"
        /\ cr.err.err = ErrInvalidPhotoURLs
        /\ cr.road = NilRoad
        /\ CalledAt("repo.Create") = {}
        /\ db = {}
        /\ \A k \in 1..Len(cr.in.photoURLs) :
              LET res == ValidateURL(SampleNet, cr.in.photoURLs[k])
              IN  ~res.Valid =>
                    IsInfix(URLString(cr.in.photoURLs[k]) \o <<": ">> \o res.Error,
                            cr.err.msg)

\* of three photos the first and the third failed, for different reasons
C14_Witness ==
    /\ PhotosChecked
    /\ cr.in.photoURLs = <<MetadataPhoto, SamplePhoto, PagePhoto>>
    /\ cr.pc = "done"
    /\ cr.err.err = ErrInvalidPhotoURLs
    /\ ValidateURL(SampleNet, MetadataPhoto).Error # ValidateURL(SampleNet, PagePhoto).Error
    /\ db = {}

\* C15: a submission with no photo URL or with more than 10 is rejected with
\* a photo count error on the field photo_urls, and none of its URLs is probed.
C15_PhotoCountBeforeProbes ==
    (Creating /\ ~PhotoCountValid(cr.in)) =>
        /\ CalledAt("photoValidator.ValidateURL") = {}
        /\ cr.pc = "done" =>
              /\ AsValidationError(cr.err)
              /\ cr.err.field = "photo_urls"
              /\ cr.road = NilRoad
              /\ db = {}

(***************************************************************************)
(* Cancellation of the caller's context.                                   *)
(***************************************************************************)
\* ctx was cancelled at position c of the log, while ValidateURLs was running
CancelledWhileProbing(c) ==
    /\ c \in CalledAt("ctx.Done")
    /\ \E i \in CalledAt("photoValidator.ValidateURLs") : i < c
    /\ \A i \in 1..(c - 1) :
          cr.log[i] \in {"photoValidator.ValidateURLs", "photoValidator.ValidateURL"}

\* C16: when ctx is cancelled while the photos are being validated, no URL is
\* probed after the cancellation and no report is persisted.
C16_CancelAbortsProbes ==
    \A c \in 1..Len(cr.log) :
        CancelledWhileProbing(c) =>
            /\ \A i \in CalledAt("photoValidator.ValidateURL") : i < c
            /\ db = {}

(***************************************************************************)
(* The centroid lookup.                                                    *)
(***************************************************************************)
\* C17: the centroid lookup reports ErrSubDistrictNotFound only when the
\* region code is absent from the dataset; a failure of the backing store is
\* reported as an error that is not ErrSubDistrictNotFound.
C17_NotFoundOnlyWhenAbsent ==
    gc.op = "GetSubDistrictCentroid" =>
        /\ ErrorsIs(gc.err, ErrSubDistrictNotFound) =>
              (~gc.in.fails /\ gc.in.code \notin DOMAIN gc.in.table)
        /\ gc.in.fails =>
              (gc.err # NoError /\ ~ErrorsIs(gc.err, ErrSubDistrictNotFound))

(***************************************************************************)
(* The boundary check.                                                     *)
(***************************************************************************)
InRange(q) ==
    /\ -110000 <= q.Lat /\ q.Lat <= 60000
    /\ 950000 <= q.Lng /\ q.Lng <= 1410000

BoundaryChecked == gc.op = "ValidateCoordinatesInBoundary"

\* C18: ValidateCoordinatesInBoundary accepts a list of points exactly when
\* every point has -11 <= lat <= 6 and 95 <= lng <= 141, the bounds included;
\* Point.Validate draws the same line.
C18_BoundsInclusive ==
    BoundaryChecked =>
        /\ gc.err = NoError <=> \A k \in 1..Len(gc.in.points) : InRange(gc.in.points[k])
        /\ \A k \in 1..Len(gc.in.points) :
              PointValidate(gc.in.points[k]) = NoError <=> InRange(gc.in.points[k])

\* the two corners pass
C18_Witness ==
    /\ BoundaryChecked
    /\ gc.in.points = <<Point(60000, 1410000), Point(-110000, 950000)>>
    /\ gc.err = NoError

\* the smallest index of a point out of range, from 1; 0 when there is none
FirstOutOfRange(points) ==
    IF \A k \in 1..Len(points) : InRange(points[k])
    THEN 0
    ELSE CHOOSE i \in 1..Len(points) :
            ~InRange(points[i]) /\ \A j \in 1..(i - 1) : InRange(points[j])

\* C19: the error of a rejection names the smallest index of a point out of
\* range, the failing axis of that point (latitude when its latitude is out
\* of range, else longitude) and the legal range of that axis; the points
\* after that index have no part in it.
C19_FirstFailureReported ==
    (BoundaryChecked /\ gc.err # NoError) =>
        LET i == FirstOutOfRange(gc.in.points)
            q == gc.in.points[i]
            latOut == q.Lat < -110000 \/ q.Lat > 60000
        IN  /\ i > 0
            /\ ErrorsIs(gc.err, ErrCoordinatesOutOfBounds)
            /\ IsInfix(<<"coordinate ", ToString(i - 1),
                         IF latOut THEN " latitude " ELSE " longitude ",
                         IF latOut THEN ToString(q.Lat) ELSE ToString(q.Lng),
                         IF latOut THEN " is outside Indonesian bounds [-11.0, 6.0]"
                                   ELSE " is outside Indonesian bounds [95.0, 141.0]">>,
                       gc.err.msg)
            /\ gc.err = ValidateCoordinatesInBoundary(SubSeq(gc.in.points, 1, i))

\* the first of two points is fine, the second has only its longitude out of
\* range
C19_Witness ==
    /\ BoundaryChecked
    /\ gc.in.points = <<Point(60000, 1410000), Point(-110000, 949999)>>
    /\ gc.err.msg = <<ErrCoordinatesOutOfBounds, ": ", "coordinate ", "1", " longitude ",
                      "949999", " is outside Indonesian bounds [95.0, 141.0]">>

(***************************************************************************)
(* The order of a path.                                                    *)
(***************************************************************************)
\* C20: for a list of 1 to 100 points in range, NewGeometryFromPoints stores
\* coordinate i as [lng_i, lat_i], and ToPoints of the geometry gives the same
\* points in the same order.
C20_PathRoundTrip ==
    (/\ gc.op = "NewGeometryFromPoints"
     /\ Len(gc.in.points) \in 1..100
     /\ \A k \in 1..Len(gc.in.points) : InRange(gc.in.points[k]))
    => /\ gc.err = NoError
       /\ Len(gc.geometry.Coordinates) = Len(gc.in.points)
       /\ \A k \in 1..Len(gc.in.points) :
             gc.geometry.Coordinates[k] = <<gc.in.points[k].Lng, gc.in.points[k].Lat>>
       /\ gc.points = gc.in.points

\* a path of 100 different points came back as it went in
C20_Witness ==
    /\ gc.op = "NewGeometryFromPoints"
    /\ Len(gc.in.points) = 100
    /\ gc.in.points[1] # gc.in.points[100]
    /\ gc.err = NoError
    /\ gc.points = gc.in.points

(***************************************************************************)
(* Properties of the report service's DeleteReport.                        *)
(***************************************************************************)
\* the call of c read the table and got an answer from it
DeleteRead(c) ==
    /\ dels[c].pc # "idle"
    /\ ~ErrorsIs(dels[c].err, "driver error") \/ dels[c].invoked

\* C21: only the author can delete a report.  repo.Delete is invoked only by a
\* call whose requesterID equals the AuthorID of the report it read; a call by
\* any other user returns ErrUnauthorizedAccess without invoking repo.Delete,
\* and a call for a report the table does not hold returns ErrReportNotFound;
\* a step that removes a report from the table is a step of its author's call.
C21_OnlyAuthorDeletes ==
    /\ [](\A c \in Requesters :
            /\ dels[c].invoked =>
                  dels[c].found # NilRoad /\ dels[c].found.AuthorID = dels[c].requesterID
            /\ ( /\ dels[c].pc = "done"
                 /\ dels[c].found # NilRoad
                 /\ dels[c].found.AuthorID # dels[c].requesterID )
               => dels[c].err = Sentinel(ErrUnauthorizedAccess) /\ ~dels[c].invoked
            /\ (dels[c].pc = "done" /\ DeleteRead(c) /\ ~dels[c].stored)
               => dels[c].err = Sentinel(ErrReportNotFound) /\ ~dels[c].invoked)
    /\ [][\A r \in db : r \notin db' =>
            \E c \in Requesters :
                /\ dels[c].pc = "delete" /\ dels'[c].pc = "done"
                /\ dels[c].id = r.ID
                /\ r.AuthorID = c]_vars

\* a stranger's call was refused while the author's call removed the report
C21_Witness ==
    \E a, b \in Requesters :
        /\ a # b
        /\ dels[a].pc = "done" /\ dels[a].err = Sentinel(ErrUnauthorizedAccess)
        /\ dels[b].pc = "done" /\ dels[b].err = NoError /\ dels[b].invoked
        /\ db = {}

(***************************************************************************)
(* Properties of CalculateDistance.                                        *)
(***************************************************************************)
\* C22: CalculateDistance is symmetric and has the identity property: the
\* distance returned for (a, b) is the distance of (b, a), and the distance
\* of a point to itself is 0.
C22_DistanceSymmetricIdentity ==
    gc.op = "CalculateDistance" =>
        LET a == gc.in.points[1]
            b == gc.in.points[2]
        IN  /\ gc.distance = CalculateDistance(b, a)
            /\ a = b => gc.distance = 0

\* the distance of two points more than 1000 km apart, of different latitudes
\* and longitudes, was computed
C22_Witness ==
    /\ gc.op = "CalculateDistance"
    /\ gc.in.points[1].Lat # gc.in.points[2].Lat
    /\ gc.in.points[1].Lng # gc.in.points[2].Lng
    /\ gc.distance > 1000000

(***************************************************************************)
(* Properties of the CreateReport HTTP handler.                            *)
(***************************************************************************)
\* the service rejected the submission: it returned an error that is not a
\* failure of the database
Rejected(c) == c.err # NoError /\ ~ErrorsIs(c.err, "driver error")

\* C23: every validation rejection of a submission returned by the service,
\* a photo-validation rejection and a boundary rejection included, is answered
\* by the handler with 400 validation_error and the rejection reason, never
\* with 500.
C23_RejectionsAnswered400 ==
    (cr.reply # NoReply /\ Rejected(cr)) =>
        /\ cr.reply.status = 400
        /\ cr.reply.error = "validation_error"
        /\ cr.reply.message # <<>>

(***************************************************************************)
(* Properties of PATCH /damaged-roads/{id}/status.                         *)
(***************************************************************************)
\* C24: a request to PATCH /damaged-roads/{id}/status that passed
\* AuthMiddleware, names an existing report and asks for the immediate
\* successor of its current status reaches ReportService.UpdateReportStatus
\* and is answered 200 with the updated report (the database not failing).
C24_AuthenticatedPatchServed ==
    ( /\ hp.pc = "done"
      /\ "userID" \in DOMAIN hp.keys
      /\ hp.stored # NilRoad
      /\ ImmediateSuccessor(hp.stored.Status, hp.body)
      /\ ~hp.findFails /\ ~hp.saveFails )
    => /\ hp.served
       /\ hp.reply.status = 200
       /\ hp.road # NilRoad /\ hp.road.Status = hp.body

(***************************************************************************)
(* Properties of the auth service's Logout and RefreshToken.               *)
(***************************************************************************)
\* C25: after a successful Logout, whether it revoked one named refresh token
\* or all of the user's refresh tokens, every later RefreshToken call that
\* presents a token the Logout revoked fails with an invalid-token error and
\* issues no access token (a token that is also expired may be refused as
\* expired, and a call whose query fails returns that failure).
C25_RevokedTokenNeverRefreshes ==
    \A s \in Sessions :
        (au.calls[s].pc = "done" /\ au.calls[s].afterLogout) =>
            /\ \/ ErrorsIs(au.calls[s].err, ErrInvalidToken)
               \/ ErrorsIs(au.calls[s].err, ErrTokenExpired)
               \/ ErrorsIs(au.calls[s].err, "driver error")
            /\ au.calls[s].accessToken = ""

(***************************************************************************)
(* Properties of the password service's ResetPassword.                     *)
(***************************************************************************)
\* C26: a password reset token is single-use.  Once a ResetPassword call with
\* a token has returned success, every later call with the same token fails
\* and does not change the user's password, also when the token-update write
\* of the successful call failed.
C26_ResetTokenSingleUse ==
    \A s \in Sessions :
        pw.calls[s].afterSuccess =>
            /\ ~pw.calls[s].changed
            /\ pw.calls[s].pc = "done" => pw.calls[s].err # NoError

(***************************************************************************)
(* The centroid check of CreateReport.                                     *)
(***************************************************************************)
\* every point of the path is farther than 200 meters from the centroid the
\* boundary dataset holds for the submitted code
FarFromCentroid(in) ==
    /\ in.subdistrictCode \in DatasetCodes
    /\ ErrorsIs(ValidateCoordinatesNearCentroid(
                    [code \in DatasetCodes |-> Centroid(code)], in.pathPoints,
                    in.subdistrictCode, centroidRadiusMeters, FALSE),
                ErrLocationNotInBoundary)

\* C27: CreateReport accepts a submission only if at least one of its path
\* points lies within 200 meters of the centroid of the submitted subdistrict
\* code; a submission whose every point is farther is rejected and not
\* persisted.
C27_FarFromCentroidRejected ==
    (cr.pc = "done" /\ cr.err = NoError) => ~FarFromCentroid(cr.in)

(***************************************************************************)
(* Who may update a status, and what concurrent updates store.             *)
(***************************************************************************)
\* the users the interface's comment authorizes: verificators and admins
Authorized(userID) == userID \in {"verificator-1", "admin-1"}

\* C28: only authorized users (verificators/admins) can update a report's
\* status: an UpdateReportStatus call whose requesterID is not an authorized
\* user is rejected and changes neither the in-memory nor the persisted status:
\* it returns a nil road and an error, as every call that stored nothing does.
C28_UnauthorizedUpdateRejected ==
    \A c \in Callers :
        (calls[c].pc = "done" /\ ~Authorized(calls[c].requesterID)) =>
            /\ calls[c].err # NoError
            /\ calls[c].road = NilRoad

\* C29: under every interleaving of UpdateReportStatus calls on the same
\* report, each write to the persisted status replaces the currently stored
\* status by its immediate successor: the stored status never moves backward,
\* never repeats a value it has left and never skips a state.
C29_StoredStatusStepsForward ==
    [][\A r \in db : \A q \in db' :
          (q.ID = r.ID /\ q.Status # r.Status) =>
              ImmediateSuccessor(r.Status, q.Status)]_vars

(***************************************************************************)
(* ValidateURL under a name server whose answers change.  The http.Client  *)
(* of NewPhotoValidator sets Timeout and CheckRedirect only: its transport *)
(* is the default one, which resolves the host of every request again when *)
(* it connects, after validateURL has resolved it with net.LookupIP.       *)
(***************************************************************************)
\* the addresses the transport gets when it resolves the host to connect
DialAnswers ==
    { {PublicV4}, {IPv4(169, 254, 169, 254)}, {IPv4(10, 1, 2, 3)},
      {PublicV4, IPv4(127, 0, 0, 1)} }

\* the name server at connection time: HostPhoto and HostCdn answer anew
DialViews ==
    { (HostPhoto :> photo) @@ (HostCdn :> cdn) @@ FixedDNS :
        photo \in DialAnswers,
        cdn \in { {IPv4(93, 184, 216, 34)}, {IPv4(192, 168, 1, 1)} } }

DialInputs ==
    { [url |-> u, net |-> Network(answer, u, script), dial |-> dial] :
        u \in { URL(<<"h", "t", "t", "p", "s">>, HostPhoto, "/photo.jpg") },
        answer \in Answers, script \in Scripts(1), dial \in DialViews }

\* the URLs of the requests sent, in order
RequestURLs(events) ==
    [k \in 1..Requested(events) |-> events[RequestAt(events, k)].url]

\* the transport's dial: one connection per request, each to an address the
\* name server answers with at that moment
Connections(dial, events) ==
    LET urls == RequestURLs(events)
    IN  { conns \in [1..Len(urls) -> UNION { dial[h] : h \in DOMAIN dial }] :
            \A k \in 1..Len(urls) : conns[k] \in LookupIP([dns |-> dial], urls[k].host) }

InitDial ==
    /\ now = 0
    /\ pw = NoPasswords
    /\ au = NoAuth
    /\ hp = NoPatch
    /\ dels = [c \in Requesters |-> IdleDelete]
    /\ gc = NoGeometryCall
    /\ road = NilRoad
    /\ ret = NoCall
    /\ ct = NoTransitionCall
    /\ db = {}
    /\ calls = [c \in Callers |-> IdleCall]
    /\ pv = NoProbe
    /\ vb = NoBatch
    /\ cr = NoCreate
    /\ \E in \in DialInputs :
          rb = [NoDial EXCEPT !.url = in.url, !.net = in.net, !.dial = in.dial]

\* v.ValidateURL(urlStr), with the connections v.httpClient.Do(req) makes
ValidateURLDial ==
    /\ rb.op = ""
    /\ LET res == ValidateURL(rb.net, rb.url)
       IN  \E conns \in Connections(rb.dial, res.events) :
              rb' = [rb EXCEPT !.op = "ValidateURL", !.res = res, !.conns = conns]
    /\ UNCHANGED <<now, geoVars, entityVars, statusVars, photoVars, createVars, dels, hp, au, pw>>

NextDial == ValidateURLDial

SpecDial == InitDial /\ [][NextDial]_vars

\* C30: every connection ValidateURL makes, for the first request and for
\* each redirect it follows, goes to an address that is not private or
\* reserved, whatever the name server answers at connection time
C30_ConnectionsPassedCheck ==
    \A k \in DOMAIN rb.conns : ~isPrivateOrReservedIP(rb.conns[k])

====
